---- MODULE Spec2Model ----
(***************************************************************************)
(* A model of the amilia booking webhook (prashanth0686/amilia).           *)
(*                                                                         *)
(* The repository holds several versions of the same Express service.      *)
(* One version is deployed at a time (variable prog); each POST /book      *)
(* request is an activation h[r] of that version's handler.  JavaScript    *)
(* runs a handler to its next await without interleaving, so one action    *)
(* of the model is the code between two awaits.                            *)
(*                                                                         *)
(* Time: every activation carries clk, the milliseconds passed since its   *)
(* handler was entered (Date.now() minus the entry time).  All timers of   *)
(* the code are relative to that instant.                                  *)
(***************************************************************************)
EXTENDS Integers, Sequences, FiniteSets, TLC

VARIABLES
  prog,           \* the deployed version, "none" before deployment
  env,            \* process.env of the deployment
  RUNNING,        \* src/index.js (version A) line 10
  RUNNING_SINCE,  \* src/index.js (version A) line 11
  isRunning,      \* src/unnamed/part_002 line 9
  cachedCookies,  \* src/unnamed/part_000 line 36
  cachedCookiesAt,\* src/unnamed/part_000 line 37
  now,            \* Date.now() of part_000, in ms since the deployment
  h,              \* h[r]: the activation of POST /book for request r
  sent            \* sent[r]: the HTTP statuses sent on the response of request r

\* the cookie cache of part_000 and its clock
cacheVars == <<cachedCookies, cachedCookiesAt, now>>

vars == <<prog, env, RUNNING, RUNNING_SINCE, isRunning, cacheVars, h, sent>>

----------------------------------------------------------------------------
(* Bounds of the model *)

\* number of POST /book requests the deployment receives
NumRequests == 2

\* Math.random() is modelled as rnd / RandDen for a numerator rnd
RandDen == 65536

Requests == 1..NumRequests

\* the values of Math.random() that are tried: the least and the greatest
RandomValues == {0, RandDen - 1}

\* how long Browserless takes to answer one call, in ms
FetchDurations == {100, 284500}

\* the HTTP statuses Browserless answers with
Statuses == {200, 400, 408, 429, 501, 503}

----------------------------------------------------------------------------
(* Values *)

Null == <<>>

Min(a, b) == IF a <= b THEN a ELSE b

Max(a, b) == IF a >= b THEN a ELSE b

RECURSIVE Pow2(_)
Pow2(n) == IF n <= 0 THEN 1 ELSE 2 * Pow2(n - 1)

\* a string of the request is a sequence of one-character strings
Digits == {"0", "1", "2", "3", "4", "5", "6", "7", "8", "9"}

Idle == [pc |-> "idle"]

Done == [pc |-> "done"]

----------------------------------------------------------------------------
(* Inputs: environments and request bodies *)

\* the retry settings read from the environment (src/index.js lines 1050-1054
\* and their defaults), and whether the runtime has AbortSignal.any
DefaultCfg ==
  [overallTimeoutMs |-> 540000, perAttemptTimeoutMs |-> 120000, maxAttempts |-> 3,
   minBackoffMs |-> 5000, maxBackoffMs |-> 30000, hasAny |-> TRUE]

TightCfg ==
  [overallTimeoutMs |-> 5000, perAttemptTimeoutMs |-> 4000, maxAttempts |-> 3,
   minBackoffMs |-> 1000, maxBackoffMs |-> 2000, hasAny |-> TRUE]

Cfgs == {DefaultCfg, TightCfg, [TightCfg EXCEPT !.hasAny = FALSE]}

FullEnv ==
  [API_KEY |-> "k1", BROWSERLESS_HTTP_BASE |-> "https://b", BROWSERLESS_TOKEN |-> "tok",
   AMILIA_EMAIL |-> "e@x", AMILIA_PASSWORD |-> "pw", POLL_SECONDS |-> Null,
   ACTIVITY_URL |-> <<>>,
   cfg |-> DefaultCfg]

Envs ==
  {FullEnv,
   [FullEnv EXCEPT !.BROWSERLESS_TOKEN = ""],
   [FullEnv EXCEPT !.AMILIA_PASSWORD = ""]}

\* the x-api-key header: absent, the right key, a wrong key
ApiKeys == {<<>>, <<"k1">>, <<"k2">>}

ProgramsUrl == <<"https:", "", "app.amilia.com", "store", "shop", "programs", "calendar", "126867">>

OtherUrl == <<"https:", "", "app.amilia.com", "store", "shop", "programs">>

\* request bodies: only the fields given are in the record's domain
Bodies ==
  {<<>>,
   [targetDay |-> "Caturday"],
   [eveningStart |-> <<"2", "5", ":", "0", "0">>],
   [eveningStart |-> <<"2", "1", ":", "0", "0">>, eveningEnd |-> <<"9", ":", "3", "0">>],
   [activityUrl |-> OtherUrl]}

\* what one call of fetch does when nothing aborts it: a response, a thrown
\* error, or no answer at all
Resp(s, ra) == [kind |-> "resp", status |-> s, name |-> "", msg |-> "", retryAfter |-> ra]

Throw(n, m) == [kind |-> "throw", status |-> 0, name |-> n, msg |-> m, retryAfter |-> Null]

Hang == [kind |-> "hang", status |-> 0, name |-> "", msg |-> "", retryAfter |-> Null]

AbortError == Throw("AbortError", "This operation was aborted")

NetworkError == Throw("TypeError", "fetch failed")

TimeoutError == Throw("Error", "socket timeout")

\* the Retry-After header of a 429: absent, seconds, an HTTP date (the instant
\* it names, in ms on the activation's clock), or unparseable
RetryAfters == {Null, <<"sec", 3600>>, <<"date", 600000>>, <<"junk">>}

FetchOutcomes ==
  {Resp(s, Null) : s \in Statuses} \cup {Resp(429, ra) : ra \in RetryAfters}
    \cup {NetworkError, TimeoutError, Hang}

----------------------------------------------------------------------------
(* Helpers shared by the versions (the copies are identical) *)

requireApiKey(apiKey) == apiKey # <<>> /\ apiKey[1] = env.API_KEY

VALID_DAYS == {"Sunday", "Monday", "Tuesday", "Wednesday", "Thursday", "Friday", "Saturday"}

\* /^([01]?\d|2[0-3]):[0-5]\d$/
isValidHHMM(v) ==
  \/ /\ Len(v) = 4
     /\ v[1] \in Digits /\ v[2] = ":"
     /\ v[3] \in {"0", "1", "2", "3", "4", "5"} /\ v[4] \in Digits
  \/ /\ Len(v) = 5
     /\ \/ v[1] \in {"0", "1"} /\ v[2] \in Digits
        \/ v[1] = "2" /\ v[2] \in {"0", "1", "2", "3"}
     /\ v[3] = ":"
     /\ v[4] \in {"0", "1", "2", "3", "4", "5"} /\ v[5] \in Digits

\* Number(d) of a digit
DigitValue(d) == CHOOSE n \in 0..9 : <<"0", "1", "2", "3", "4", "5", "6", "7", "8", "9">>[n + 1] = d

\* hhmmToMinutes of the remote script, for a valid HH:MM
hhmmToMinutes(v) ==
  IF Len(v) = 4 THEN DigitValue(v[1]) * 60 + DigitValue(v[3]) * 10 + DigitValue(v[4])
  ELSE (DigitValue(v[1]) * 10 + DigitValue(v[2])) * 60 + DigitValue(v[4]) * 10 + DigitValue(v[5])

\* a URL is the sequence of its parts between slashes
isValidCalendarUrl(u) ==
  \/ \E i \in 2..(Len(u) - 2) : u[i] = "shop" /\ u[i + 1] = "activities"
  \/ \E i \in 2..(Len(u) - 3) :
       u[i] = "shop" /\ u[i + 1] = "programs" /\ u[i + 2] = "calendar"

Field(body, f, default) == IF f \in DOMAIN body THEN body[f] ELSE default

\* defaults and overrides of the rule
MakeRule(body) ==
  [targetDay |-> Field(body, "targetDay", "Saturday"),
   eveningStart |-> Field(body, "eveningStart", <<"1", "3", ":", "0", "0">>),
   eveningEnd |-> Field(body, "eveningEnd", <<"2", "0", ":", "0", "0">>),
   timeZone |-> Field(body, "timeZone", "America/Toronto"),
   activityUrl |-> Field(body, "activityUrl", ProgramsUrl),
   dryRun |-> Field(body, "dryRun", TRUE),
   pollSeconds |-> Field(body, "pollSeconds", 120),
   pollIntervalMs |-> Field(body, "pollIntervalMs", 5000)]

ValidRule(rule) ==
  /\ rule.targetDay \in VALID_DAYS
  /\ isValidHHMM(rule.eveningStart) /\ isValidHHMM(rule.eveningEnd)
  /\ isValidCalendarUrl(rule.activityUrl)

\* mutant: the Amilia credentials are not checked
ConfigStatusBrowserlessOnly ==
  IF env.BROWSERLESS_HTTP_BASE = "" \/ env.BROWSERLESS_TOKEN = "" THEN 500 ELSE 0

\* the status of the configuration check: 0 when nothing is missing
ConfigStatus ==
  IF env.BROWSERLESS_HTTP_BASE = "" \/ env.BROWSERLESS_TOKEN = "" THEN 500
  ELSE IF env.AMILIA_EMAIL = "" \/ env.AMILIA_PASSWORD = "" THEN 500
  ELSE 0

ok(status) == 200 <= status /\ status <= 299

\* mutant: the timer fires at once, whatever the delay
sleepNoDelay(ms) == 1

\* setTimeout(r, ms): a delay below 1 ms or above 2^31 - 1 ms runs after 1 ms
sleep(ms) == IF ms < 1 \/ ms > 2147483647 THEN 1 ELSE ms

\* Math.floor(Math.random() * n) for Math.random() = rnd / RandDen
RandomBelow(n, rnd) == (rnd * n) \div RandDen

\* res.status(status).json(...) followed by the handler's return
Send(r, status) ==
  /\ sent' = [sent EXCEPT ![r] = Append(@, status)]
  /\ h' = [h EXCEPT ![r] = Done]

----------------------------------------------------------------------------
(* Version A: src/index.js lines 1-529 *)

maxAttemptsA == 4

baseDelayMsA == 1200

maxDelayMsA == 12000

timeoutMsA == 285000

\* mutant: the band is half of the delay instead of a fifth
jitterHalf(ms, rnd) ==
  LET delta == ms \div 2
  IN  ms + RandomBelow(delta * 2 + 1, rnd) - delta

jitter(ms, rnd) ==
  LET delta == ms \div 5
  IN  ms + RandomBelow(delta * 2 + 1, rnd) - delta

delayA(attempt) == Min(maxDelayMsA, baseDelayMsA * Pow2(attempt - 1))

retryableA(status) == status = 429 \/ (status >= 500 /\ status <= 599)

\* mutant: the flag is not looked at
LockNeverHeldA == FALSE

LockHeldA == RUNNING

isLastAttemptA(attempt) == attempt = maxAttemptsA

\* mutant: the loop variable is not incremented
nextAttemptStuckA(attempt) == attempt

nextAttemptA(attempt) == attempt + 1

\* the signal of the handler's AbortController at time clk
abortedA(clk) == clk >= timeoutMsA

\* mutant: the lock is released on the success path only
FinallyOnSuccessA(r, status) ==
  /\ Send(r, status)
  /\ RUNNING' = (IF status = 200 THEN FALSE ELSE RUNNING)
  /\ RUNNING_SINCE' = (IF status = 200 THEN Null ELSE RUNNING_SINCE)

\* the inner and the outer finally of the handler, after the response
FinallyA(r, status) ==
  /\ Send(r, status)
  /\ RUNNING' = FALSE
  /\ RUNNING_SINCE' = Null

\* mutant: a rejected request runs the finally of the handler
RejectReleasesA(r, status) == FinallyA(r, status)

\* a return before the lock is taken: the response, and nothing else
RejectA(r, status) ==
  /\ Send(r, status)
  /\ UNCHANGED <<RUNNING, RUNNING_SINCE>>

\* fetchWithRetry calls fetch(url, options): attempt number `attempt` at time clk
CallFetchA(r, rule, attempt, clk, fetches) ==
  h' = [h EXCEPT ![r] = [pc |-> "fetch", rule |-> rule, attempt |-> attempt,
                         clk |-> clk, waitMs |-> 0, fetches |-> fetches + 1,
                         result |-> Hang]]

\* fetchWithRetry returns or throws; the handler resumes in RespondA
ReturnA(r, clk, result) ==
  h' = [h EXCEPT ![r] = [@ EXCEPT !.pc = "returned", !.clk = clk, !.result = result]]

\* POST /book up to its first await
BookA(r, apiKey, body) ==
  /\ prog = "A" /\ h[r].pc = "idle"
  /\ UNCHANGED <<cacheVars, prog, env, isRunning>>
  /\ IF ~requireApiKey(apiKey)
       THEN RejectA(r, 401)
     ELSE IF LockHeldA
       THEN RejectA(r, 409)
     ELSE IF ConfigStatus # 0
       THEN FinallyA(r, ConfigStatus)
     ELSE IF ~ValidRule(MakeRule(body))
       THEN FinallyA(r, 400)
     ELSE /\ RUNNING' = TRUE
          /\ RUNNING_SINCE' = <<r>>
          /\ CallFetchA(r, MakeRule(body), 1, 0, 0)
          /\ UNCHANGED sent

\* what the pending fetch settles with, and when: the abort signal wins
SettleA(start, out, d) ==
  IF abortedA(start) THEN [at |-> start, out |-> AbortError]
  ELSE IF out.kind = "hang" \/ abortedA(start + d)
    THEN [at |-> timeoutMsA, out |-> AbortError]
  ELSE [at |-> start + d, out |-> out]

\* the fetch of the current attempt settles; the loop body runs to its next await
FetchSettlesA(r, out, d, rnd) ==
  /\ prog = "A" /\ h[r].pc = "fetch"
  /\ UNCHANGED <<cacheVars, prog, env, RUNNING, RUNNING_SINCE, isRunning, sent>>
  /\ LET s == SettleA(h[r].clk, out, d)
         attempt == h[r].attempt
         waitMs == jitter(delayA(attempt), rnd)
         retry == s.out.kind = "throw" \/ retryableA(s.out.status)
     IN  IF retry /\ ~isLastAttemptA(attempt)
           THEN h' = [h EXCEPT ![r] = [@ EXCEPT !.pc = "sleep", !.clk = s.at,
                                                !.waitMs = waitMs, !.result = s.out]]
           ELSE ReturnA(r, s.at, s.out)

\* the backoff sleep ends; the for loop goes to its next attempt
SleepEndsA(r) ==
  /\ prog = "A" /\ h[r].pc = "sleep"
  /\ UNCHANGED <<cacheVars, prog, env, RUNNING, RUNNING_SINCE, isRunning, sent>>
  /\ LET clk == h[r].clk + sleep(h[r].waitMs)
         attempt == nextAttemptA(h[r].attempt)
     IN  IF attempt <= maxAttemptsA
           THEN CallFetchA(r, h[r].rule, attempt, clk, h[r].fetches)
           ELSE ReturnA(r, clk, h[r].result)

\* the handler after await fetchWithRetry(...)
RespondA(r) ==
  /\ prog = "A" /\ h[r].pc = "returned"
  /\ UNCHANGED <<cacheVars, prog, env, isRunning>>
  /\ IF h[r].result.kind = "throw" THEN FinallyA(r, 504)
     ELSE IF ~ok(h[r].result.status) THEN FinallyA(r, 502)
     ELSE FinallyA(r, 200)

DeployA == prog = "none" /\ prog' = "A" /\ env' \in Envs
           /\ UNCHANGED <<cacheVars, RUNNING, RUNNING_SINCE, isRunning, h, sent>>

NextA ==
  \/ DeployA
  \/ \E r \in Requests, apiKey \in ApiKeys, body \in Bodies : BookA(r, apiKey, body)
  \/ \E r \in Requests, out \in FetchOutcomes, d \in FetchDurations, rnd \in RandomValues :
       FetchSettlesA(r, out, d, rnd)
  \/ \E r \in Requests : SleepEndsA(r)
  \/ \E r \in Requests : RespondA(r)

----------------------------------------------------------------------------
(* Version B: src/index.js lines 531-1119 *)

clamp(n, min, max) == Max(min, Min(max, n))

\* the value of the Retry-After header in ms, Null when absent or unparseable
parseRetryAfterMs(ra, clk) ==
  IF ra = Null THEN Null
  ELSE IF ra[1] = "sec" THEN <<ra[2] * 1000>>
  ELSE IF ra[1] = "date" THEN <<Max(0, ra[2] - clk)>>
  ELSE Null

\* mutant: every error status is retried
retryableStatusAllB(status) == status >= 400

retryableStatusB(status) == status \in {408, 429, 500, 502, 503, 504}

\* name === "AbortError" || /aborted/i.test(msg) || /timeout/i.test(msg)
retryableErrB(err) ==
  \/ err.name = "AbortError"
  \/ err.msg \in {"This operation was aborted"}
  \/ err.msg \in {"socket timeout"}

\* new Error(`Browserless HTTP ${resp.status}`) with err.httpStatus
HttpErrorB(status) ==
  [kind |-> "throw", status |-> status, name |-> "Error", msg |-> "Browserless HTTP",
   retryAfter |-> Null]

OverallTimeoutErrorB == Throw("Error", "Overall timeout after")

overallAbortedB(clk) == clk >= env.cfg.overallTimeoutMs

isLastAttemptB(attempt) == attempt = env.cfg.maxAttempts

nextAttemptB(attempt) == attempt + 1

baseB(attempt) ==
  clamp(env.cfg.minBackoffMs * Pow2(attempt - 1), env.cfg.minBackoffMs, env.cfg.maxBackoffMs)

jitterB(rnd) == RandomBelow(500, rnd)

\* the wait after a retryable status: retryAfterMs ?? (base + jitter)
waitMsB(resp, attempt, clk, rnd) ==
  LET retryAfterMs == IF resp.status = 429 THEN parseRetryAfterMs(resp.retryAfter, clk)
                      ELSE Null
  IN  IF retryAfterMs # Null THEN retryAfterMs[1] ELSE baseB(attempt) + jitterB(rnd)

\* the instant at which mergedSignal aborts a fetch started at `start`
abortAtB(start) ==
  IF env.cfg.hasAny
    THEN Min(env.cfg.overallTimeoutMs, start + env.cfg.perAttemptTimeoutMs)
    ELSE env.cfg.overallTimeoutMs

\* fetchWithRetry calls fetch: attempt number `attempt` at time clk.  allRetry
\* records that every attempt so far ended in a retryable failure.
CallFetchB(r, rule, attempt, clk, fetches, allRetry) ==
  h' = [h EXCEPT ![r] = [pc |-> "fetch", rule |-> rule, attempt |-> attempt,
                         clk |-> clk, waitMs |-> 0, fetches |-> fetches + 1,
                         result |-> Hang, allRetry |-> allRetry]]

\* fetchWithRetry returns or throws; the handler resumes in RespondB
ReturnB(r, clk, result, allRetry) ==
  h' = [h EXCEPT ![r] = [@ EXCEPT !.pc = "returned", !.clk = clk, !.result = result,
                                  !.allRetry = allRetry]]

\* await sleep(waitMs) after the failure `result`
SleepB(r, clk, waitMs, result, allRetry) ==
  h' = [h EXCEPT ![r] = [@ EXCEPT !.pc = "sleep", !.clk = clk, !.waitMs = waitMs,
                                  !.result = result, !.allRetry = allRetry]]

\* a retryable failure of one attempt: an abort, or a 408, 429 or 5xx answer
RetryableFailure(out) ==
  \/ out = AbortError
  \/ out.kind = "resp" /\ (out.status \in {408, 429} \/ (out.status >= 500 /\ out.status <= 599))

\* no activation of the deployment is between its first await and its response
Quiet == \A q \in Requests : h[q].pc \in {"idle", "done"}

\* POST /book up to its first await.  Version B shares no state between
\* requests; the model lets one request at a time reach Browserless.
BookB(r, apiKey, body) ==
  /\ prog = "B" /\ h[r].pc = "idle"
  /\ UNCHANGED <<cacheVars, prog, env, RUNNING, RUNNING_SINCE, isRunning>>
  /\ IF ~requireApiKey(apiKey) THEN Send(r, 401)
     ELSE IF ConfigStatus # 0 THEN Send(r, ConfigStatus)
     ELSE IF ~ValidRule(MakeRule(body)) THEN Send(r, 400)
     ELSE /\ Quiet
          /\ CallFetchB(r, MakeRule(body), 1, 0, 0, TRUE)
          /\ UNCHANGED sent

SettleB(start, out, d) ==
  IF overallAbortedB(start) THEN [at |-> start, out |-> AbortError]
  ELSE IF out.kind = "hang" \/ start + d >= abortAtB(start)
    THEN [at |-> abortAtB(start), out |-> AbortError]
  ELSE [at |-> start + d, out |-> out]

\* the catch block of the attempt, entered with err at time clk
CatchB(r, err, clk, rnd, allRetry) ==
  IF overallAbortedB(clk) THEN ReturnB(r, clk, OverallTimeoutErrorB, allRetry)
  ELSE IF ~retryableErrB(err) \/ isLastAttemptB(h[r].attempt)
    THEN ReturnB(r, clk, err, allRetry)
  ELSE SleepB(r, clk, baseB(h[r].attempt) + jitterB(rnd), err, allRetry)

\* the fetch of the current attempt settles; the loop body runs to its next await
FetchSettlesB(r, out, d, rnd) ==
  /\ prog = "B" /\ h[r].pc = "fetch"
  /\ UNCHANGED <<cacheVars, prog, env, RUNNING, RUNNING_SINCE, isRunning, sent>>
  /\ LET s == SettleB(h[r].clk, out, d)
         attempt == h[r].attempt
         allRetry == h[r].allRetry /\ RetryableFailure(s.out)
     IN  IF s.out.kind = "throw" THEN CatchB(r, s.out, s.at, rnd, allRetry)
         ELSE IF ok(s.out.status) THEN ReturnB(r, s.at, s.out, allRetry)
         ELSE IF ~retryableStatusB(s.out.status) \/ isLastAttemptB(attempt)
           THEN CatchB(r, HttpErrorB(s.out.status), s.at, rnd, allRetry)
         ELSE SleepB(r, s.at, waitMsB(s.out, attempt, s.at, rnd), s.out, allRetry)

\* the backoff sleep ends; the for loop goes to its next attempt
SleepEndsB(r) ==
  /\ prog = "B" /\ h[r].pc = "sleep"
  /\ UNCHANGED <<cacheVars, prog, env, RUNNING, RUNNING_SINCE, isRunning, sent>>
  /\ LET clk == h[r].clk + sleep(h[r].waitMs)
         attempt == nextAttemptB(h[r].attempt)
     IN  IF attempt <= env.cfg.maxAttempts
           THEN CallFetchB(r, h[r].rule, attempt, clk, h[r].fetches, h[r].allRetry)
           ELSE ReturnB(r, clk, h[r].result, h[r].allRetry)

\* the handler after await fetchWithRetry(...)
RespondB(r) ==
  /\ prog = "B" /\ h[r].pc = "returned"
  /\ UNCHANGED <<cacheVars, prog, env, RUNNING, RUNNING_SINCE, isRunning>>
  /\ IF h[r].result.kind = "throw" THEN Send(r, 503) ELSE Send(r, 200)

EnvsB == Envs \cup {[FullEnv EXCEPT !.cfg = c] : c \in Cfgs}

DeployB == prog = "none" /\ prog' = "B" /\ env' \in EnvsB
           /\ UNCHANGED <<cacheVars, RUNNING, RUNNING_SINCE, isRunning, h, sent>>

NextB ==
  \/ DeployB
  \/ \E r \in Requests, apiKey \in ApiKeys, body \in Bodies : BookB(r, apiKey, body)
  \/ \E r \in Requests, out \in FetchOutcomes, d \in FetchDurations, rnd \in RandomValues :
       FetchSettlesB(r, out, d, rnd)
  \/ \E r \in Requests : SleepEndsB(r)
  \/ \E r \in Requests : RespondB(r)

----------------------------------------------------------------------------
(* Program P2: src/unnamed/part_002 *)

maxAttemptsP2 == 8

baseDelayMsP2 == 1500

maxDelayMsP2 == 15000

\* Number(process.env.POLL_SECONDS || "240")
DEFAULT_POLL_SECONDS_P2 == IF env.POLL_SECONDS = Null THEN 240 ELSE env.POLL_SECONDS[1]

\* the rule of part_002: its defaults of pollSeconds and pollIntervalMs differ
MakeRuleP2(body) ==
  [MakeRule(body) EXCEPT !.pollSeconds = Field(body, "pollSeconds", DEFAULT_POLL_SECONDS_P2),
                         !.pollIntervalMs = Field(body, "pollIntervalMs", 2000)]

maxTotalMsP2(rule) == Min(240000, Max(60000, rule.pollSeconds * 1000 + 60000))

perAttemptTimeoutMsP2(maxTotalMs, elapsed) == Min(60000, Max(15000, maxTotalMs - elapsed))

retryableStatusP2(status) == status \in {408, 409, 425, 429, 500, 502, 503, 504}

\* name === "AbortError" || /network|fetch|timeout|ECONNRESET|ENOTFOUND|EAI_AGAIN/i.test(msg)
retryableErrP2(err) ==
  err.name = "AbortError" \/ err.msg \in {"fetch failed", "socket timeout"}

\* Math.floor(delay * (0.7 + Math.random() * 0.6))
jitterP2(delay, rnd) ==
  LET p == delay * rnd
  IN  (7 * delay + 6 * (p \div RandDen) + (6 * (p % RandDen)) \div RandDen) \div 10

\* the delay after a retryable status, before the jitter
delayP2(resp, attempt) ==
  IF resp.retryAfter # Null /\ resp.retryAfter[1] = "sec" /\ resp.retryAfter[2] > 0
    THEN Min(maxDelayMsP2, resp.retryAfter[2] * 1000)
    ELSE Min(maxDelayMsP2, baseDelayMsP2 * Pow2(attempt - 1))

BudgetErrorP2 == Throw("Error", "fetchWithRetry failed after")

LockHeldP2 == isRunning

\* the finally of the handler, after the response
FinallyP2(r, status) ==
  /\ Send(r, status)
  /\ isRunning' = FALSE

ReturnP2(r, clk, result) ==
  h' = [h EXCEPT ![r] = [@ EXCEPT !.pc = "returned", !.clk = clk, !.result = result]]

\* the head of the while loop at time clk, after `attempt` attempts
LoopP2(r, act, attempt, clk) ==
  IF attempt < maxAttemptsP2 /\ clk < act.maxTotalMs
    THEN h' = [h EXCEPT ![r] = [act EXCEPT !.pc = "fetch", !.attempt = attempt + 1,
                                           !.clk = clk, !.waitMs = 0,
                                           !.fetches = act.fetches + 1,
                                           !.result = Hang]]
    ELSE h' = [h EXCEPT ![r] = [act EXCEPT !.pc = "returned", !.clk = clk,
                                           !.result = BudgetErrorP2]]

\* POST /book up to its first await
BookP2(r, apiKey, body) ==
  /\ prog = "P2" /\ h[r].pc = "idle"
  /\ UNCHANGED <<cacheVars, prog, env, RUNNING, RUNNING_SINCE>>
  /\ IF ~requireApiKey(apiKey)
       THEN Send(r, 401) /\ UNCHANGED isRunning
     ELSE IF LockHeldP2
       THEN Send(r, 429) /\ UNCHANGED isRunning
     ELSE IF ConfigStatus # 0
       THEN FinallyP2(r, ConfigStatus)
     ELSE IF ~ValidRule(MakeRuleP2(body))
       THEN FinallyP2(r, 400)
     ELSE /\ isRunning' = TRUE
          /\ LoopP2(r, [pc |-> "idle", maxTotalMs |-> maxTotalMsP2(MakeRuleP2(body)),
                        attempt |-> 0, clk |-> 0, waitMs |-> 0, fetches |-> 0,
                        result |-> Hang], 0, 0)
          /\ UNCHANGED sent

\* what the pending fetch settles with, and when: the per-attempt timer aborts it
SettleP2(start, out, d, maxTotalMs) ==
  LET t == perAttemptTimeoutMsP2(maxTotalMs, start)
  IN  IF out.kind = "hang" \/ d >= t THEN [at |-> start + t, out |-> AbortError]
      ELSE [at |-> start + d, out |-> out]

\* the fetch of the current attempt settles; the loop body runs to its next await
FetchSettlesP2(r, out, d, rnd) ==
  /\ prog = "P2" /\ h[r].pc = "fetch"
  /\ UNCHANGED <<cacheVars, prog, env, RUNNING, RUNNING_SINCE, isRunning, sent>>
  /\ LET s == SettleP2(h[r].clk, out, d, h[r].maxTotalMs)
         attempt == h[r].attempt
         delay == IF s.out.kind = "throw"
                    THEN jitterP2(Min(maxDelayMsP2, baseDelayMsP2 * Pow2(attempt - 1)), rnd)
                    ELSE jitterP2(delayP2(s.out, attempt), rnd)
     IN  IF s.out.kind = "resp" /\ (ok(s.out.status) \/ ~retryableStatusP2(s.out.status))
           THEN ReturnP2(r, s.at, s.out)
         ELSE IF s.out.kind = "throw" /\ ~retryableErrP2(s.out)
           THEN ReturnP2(r, s.at, s.out)
         ELSE IF s.at + delay > h[r].maxTotalMs
           THEN ReturnP2(r, s.at, BudgetErrorP2)
         ELSE h' = [h EXCEPT ![r] = [@ EXCEPT !.pc = "sleep", !.clk = s.at,
                                              !.waitMs = delay]]

\* the backoff sleep ends; the while loop tests its condition again
SleepEndsP2(r) ==
  /\ prog = "P2" /\ h[r].pc = "sleep"
  /\ UNCHANGED <<cacheVars, prog, env, RUNNING, RUNNING_SINCE, isRunning, sent>>
  /\ LoopP2(r, h[r], h[r].attempt, h[r].clk + sleep(h[r].waitMs))

\* the handler after await fetchWithRetry(...) and await resp.text()
RespondP2(r) ==
  /\ prog = "P2" /\ h[r].pc = "returned"
  /\ UNCHANGED <<cacheVars, prog, env, RUNNING, RUNNING_SINCE>>
  /\ IF h[r].result.kind = "throw" THEN FinallyP2(r, 503)
     ELSE IF ~ok(h[r].result.status) THEN FinallyP2(r, 503)
     ELSE FinallyP2(r, 200)

\* the deployments of part_002 set POLL_SECONDS=0: the least total budget, 60000 ms
EnvsP2 == {[e EXCEPT !.POLL_SECONDS = <<0>>] : e \in Envs}

DeployP2 == prog = "none" /\ prog' = "P2" /\ env' \in EnvsP2
            /\ UNCHANGED <<cacheVars, RUNNING, RUNNING_SINCE, isRunning, h, sent>>

NextP2 ==
  \/ DeployP2
  \/ \E r \in Requests, apiKey \in ApiKeys, body \in Bodies : BookP2(r, apiKey, body)
  \/ \E r \in Requests, out \in FetchOutcomes, d \in FetchDurations, rnd \in RandomValues :
       FetchSettlesP2(r, out, d, rnd)
  \/ \E r \in Requests : SleepEndsP2(r)
  \/ \E r \in Requests : RespondP2(r)

----------------------------------------------------------------------------
(* Program P3: src/unnamed/part_003 lines 1-573 *)

baseDelayMsP3 == 1500

maxDelayMsP3 == 8000

\* BROWSERLESS_OVERALL_TIMEOUT_MS, BROWSERLESS_PER_ATTEMPT_TIMEOUT_MS and
\* BROWSERLESS_MAX_ATTEMPTS: the defaults, and a tight setting
DefaultCfgP3 == [overallBudgetMs |-> 540000, perAttemptTimeoutMs |-> 90000, maxAttempts |-> 3]

TightCfgP3 == [overallBudgetMs |-> 5000, perAttemptTimeoutMs |-> 4000, maxAttempts |-> 3]

\* mutant: the attempt gets the whole per-attempt timeout
wholeAttemptTimeoutP3(perAttemptTimeoutMs, remaining) == perAttemptTimeoutMs

thisAttemptTimeoutP3(perAttemptTimeoutMs, remaining) == Min(perAttemptTimeoutMs, remaining)

retryableStatusP3(status) == status = 429 \/ status = 408 \/ (status >= 500 /\ status <= 599)

\* name === "AbortError" || /network|fetch|ECONNRESET|ETIMEDOUT|EAI_AGAIN/i.test(message)
retryableErrP3(err) == err.name = "AbortError" \/ err.msg \in {"fetch failed"}

\* new Error(`HTTP ${resp.status} from Browserless`)
HttpErrorP3(status) ==
  [kind |-> "throw", status |-> status, name |-> "Error", msg |-> "HTTP from Browserless",
   retryAfter |-> Null]

BudgetErrorP3 == Throw("Error", "Overall budget exceeded before attempt")

\* the error thrown after the loop: its message ends with the message of lastErr
FailedErrorP3(lastErr) == Throw("Error", lastErr.msg)

\* /budget exceeded|aborted|AbortError|timed out/i.test(msg)
isTimeoutP3(msg) ==
  msg \in {"Overall budget exceeded before attempt", "This operation was aborted"}

delayP3(attempt, rnd) ==
  Min(maxDelayMsP3, baseDelayMsP3 * Pow2(attempt - 1)) + RandomBelow(400, rnd)

ReturnP3(r, act, clk, result) ==
  h' = [h EXCEPT ![r] = [act EXCEPT !.pc = "returned", !.clk = clk, !.result = result]]

\* the head of the for loop at time clk, with loop variable `attempt`
LoopP3(r, act, attempt, clk) ==
  LET remaining == env.cfg.overallBudgetMs - clk
  IN  IF attempt > env.cfg.maxAttempts THEN ReturnP3(r, act, clk, FailedErrorP3(act.result))
      ELSE IF remaining <= 0 THEN ReturnP3(r, act, clk, BudgetErrorP3)
      ELSE h' = [h EXCEPT ![r] =
                  [act EXCEPT !.pc = "fetch", !.attempt = attempt, !.clk = clk,
                              !.timeout = thisAttemptTimeoutP3(env.cfg.perAttemptTimeoutMs,
                                                               remaining),
                              !.waitMs = 0, !.fetches = act.fetches + 1]]

\* POST /book up to its first await
BookP3(r, apiKey, body) ==
  /\ prog = "P3" /\ h[r].pc = "idle"
  /\ UNCHANGED <<cacheVars, prog, env, RUNNING, RUNNING_SINCE, isRunning>>
  /\ IF ~requireApiKey(apiKey) THEN Send(r, 401)
     ELSE IF ConfigStatus # 0 THEN Send(r, ConfigStatus)
     ELSE IF ~ValidRule(MakeRule(body)) THEN Send(r, 400)
     ELSE /\ Quiet
          /\ LoopP3(r, [pc |-> "idle", attempt |-> 0, clk |-> 0, timeout |-> 0,
                        waitMs |-> 0, fetches |-> 0, result |-> Hang], 1, 0)
          /\ UNCHANGED sent

\* what the pending fetch settles with, and when: the attempt's timer aborts it
SettleP3(start, out, d, timeout) ==
  IF out.kind = "hang" \/ d >= sleep(timeout)
    THEN [at |-> start + sleep(timeout), out |-> AbortError]
    ELSE [at |-> start + d, out |-> out]

\* the fetch of the current attempt settles; the loop body runs to its next await
FetchSettlesP3(r, out, d, rnd) ==
  /\ prog = "P3" /\ h[r].pc = "fetch"
  /\ UNCHANGED <<cacheVars, prog, env, RUNNING, RUNNING_SINCE, isRunning, sent>>
  /\ LET s == SettleP3(h[r].clk, out, d, h[r].timeout)
         lastErr == IF s.out.kind = "throw" THEN s.out ELSE HttpErrorP3(s.out.status)
         slept == [h[r] EXCEPT !.pc = "sleep", !.clk = s.at, !.result = lastErr,
                               !.waitMs = delayP3(h[r].attempt, rnd)]
     IN  IF s.out.kind = "resp" /\ ~retryableStatusP3(s.out.status)
           THEN ReturnP3(r, h[r], s.at, s.out)
         ELSE IF s.out.kind = "throw" /\ ~retryableErrP3(s.out)
           THEN ReturnP3(r, h[r], s.at, FailedErrorP3(s.out))
         ELSE h' = [h EXCEPT ![r] = slept]

\* the backoff sleep ends; the for loop goes to its next attempt
SleepEndsP3(r) ==
  /\ prog = "P3" /\ h[r].pc = "sleep"
  /\ UNCHANGED <<cacheVars, prog, env, RUNNING, RUNNING_SINCE, isRunning, sent>>
  /\ LoopP3(r, h[r], h[r].attempt + 1, h[r].clk + sleep(h[r].waitMs))

\* the handler after await fetchWithRetry(...) and await resp.text()
RespondP3(r) ==
  /\ prog = "P3" /\ h[r].pc = "returned"
  /\ UNCHANGED <<cacheVars, prog, env, RUNNING, RUNNING_SINCE, isRunning>>
  /\ IF h[r].result.kind = "throw"
       THEN Send(r, IF isTimeoutP3(h[r].result.msg) THEN 504 ELSE 502)
     ELSE IF ~ok(h[r].result.status) THEN Send(r, 502)
     ELSE Send(r, 200)

EnvsP3 == {[e EXCEPT !.cfg = DefaultCfgP3] : e \in Envs}
            \cup {[FullEnv EXCEPT !.cfg = TightCfgP3]}

DeployP3 == prog = "none" /\ prog' = "P3" /\ env' \in EnvsP3
            /\ UNCHANGED <<cacheVars, RUNNING, RUNNING_SINCE, isRunning, h, sent>>

NextP3 ==
  \/ DeployP3
  \/ \E r \in Requests, apiKey \in ApiKeys, body \in Bodies : BookP3(r, apiKey, body)
  \/ \E r \in Requests, out \in FetchOutcomes, d \in FetchDurations, rnd \in RandomValues :
       FetchSettlesP3(r, out, d, rnd)
  \/ \E r \in Requests : SleepEndsP3(r)
  \/ \E r \in Requests : RespondP3(r)

----------------------------------------------------------------------------
(* Program P8: src/unnamed/part_008 lines 42-355 *)

\* BROWSERLESS_MAX_ATTEMPTS, BROWSERLESS_PER_ATTEMPT_TIMEOUT_MS and
\* BROWSERLESS_OVERALL_TIMEOUT_MS with backoffMs: the defaults, and a tight setting
DefaultCfgP8 ==
  [attempts |-> 3, perAttemptTimeoutMs |-> 180000, overallTimeoutMs |-> 540000,
   backoffMs |-> 1500]

TightCfgP8 ==
  [attempts |-> 3, perAttemptTimeoutMs |-> 4000, overallTimeoutMs |-> 5000,
   backoffMs |-> 1500]

\* a retry object sent in the request body
LongRetryP8 ==
  [attempts |-> 2, perAttemptTimeoutMs |-> 60000, overallTimeoutMs |-> 100000,
   backoffMs |-> 0]

BodiesP8 == {<<>>, [activityUrl |-> OtherUrl], [retry |-> LongRetryP8]}

BOOK_HANDLER_TIMEOUT_MS == Min(env.cfg.overallTimeoutMs + 30000, 870000)

\* x || y for a string x given as a sequence: the empty string is falsy
OrElse(x, y) == IF x = <<>> THEN y ELSE x

\* the fields of the rule that the retry loop and runBrowserlessJob read
normalizeRule(input) ==
  [activityUrl |-> OrElse(Field(input, "activityUrl", <<>>), env.ACTIVITY_URL),
   retry |-> Field(input, "retry", env.cfg)]

\* an error object: its message, httpStatus (0 when not set) and code
ErrP8(msg, httpStatus, code) ==
  [kind |-> "throw", msg |-> msg, httpStatus |-> httpStatus, code |-> code]

OverallTimeoutErrorP8 == ErrP8("Overall timeout exceeded", 408, "")

PerAttemptTimeoutErrorP8 == ErrP8("Per-attempt timeout", 0, "ETIMEDOUT")

\* the object runBrowserlessJob resolves with
JobResult(isOk, status, httpStatus) ==
  [kind |-> "job", ok |-> isOk, status |-> status, httpStatus |-> httpStatus]

attemptTimeoutP8(perAttemptTimeoutMs, remaining) == Min(perAttemptTimeoutMs, remaining)

\* Math.min(backoffMs || 1500, Math.max(0, overallTimeoutMs - elapsed - 50))
backoffP8(cfg, elapsed) ==
  Min(IF cfg.backoffMs = 0 THEN 1500 ELSE cfg.backoffMs,
      Max(0, cfg.overallTimeoutMs - elapsed - 50))

\* the calls of runBrowserlessJob that are still running at time clk: each is
\* the instant its fetch settles, or Null when it never does
StillPending(pending, clk) == {e \in pending : e = Null \/ e[1] > clk}

ReturnP8(r, act, clk, result) ==
  h' = [h EXCEPT ![r] = [act EXCEPT !.pc = "returned", !.clk = clk, !.result = result,
                                    !.pending = StillPending(act.pending, clk)]]

\* the head of the for loop at time clk, with loop variable i; fn() runs up to
\* its first await
LoopP8(r, act, i, clk) ==
  LET cfg == act.rule.retry
      remaining == cfg.overallTimeoutMs - clk
      called == [act EXCEPT !.i = i, !.fetches = act.fetches + 1]
  IN  IF i > cfg.attempts THEN ReturnP8(r, act, clk, act.result)
      ELSE IF remaining <= 0 THEN ReturnP8(r, act, clk, OverallTimeoutErrorP8)
      ELSE IF env.BROWSERLESS_TOKEN = ""
        THEN ReturnP8(r, called, clk, JobResult(FALSE, "BROWSERLESS_CONFIG_ERROR", 500))
      ELSE IF act.rule.activityUrl = <<>>
        THEN ReturnP8(r, called, clk, JobResult(FALSE, "VALIDATION_ERROR", 400))
      ELSE h' = [h EXCEPT ![r] =
                  [called EXCEPT !.pc = "race", !.clk = clk, !.waitMs = 0,
                                 !.timeout = attemptTimeoutP8(cfg.perAttemptTimeoutMs,
                                                              remaining),
                                 !.pending = StillPending(act.pending, clk)]]

\* POST /book with the requireApiKey middleware, up to the first await
BookP8(r, apiKey, body) ==
  /\ prog = "P8" /\ h[r].pc = "idle"
  /\ UNCHANGED <<cacheVars, prog, env, RUNNING, RUNNING_SINCE, isRunning>>
  /\ IF env.API_KEY = "" THEN Send(r, 500)
     ELSE IF ~requireApiKey(apiKey) THEN Send(r, 401)
     ELSE /\ Quiet
          /\ LoopP8(r, [pc |-> "idle", rule |-> normalizeRule(body), i |-> 0, clk |-> 0,
                        timeout |-> 0, waitMs |-> 0, fetches |-> 0, pending |-> {},
                        result |-> ErrP8("fetchWithRetry failed", 0, ""),
                        answered |-> FALSE], 1, 0)
          /\ UNCHANGED sent

\* an event of the run at time `at` and the handler's timer: the timer fires
\* first when the event comes after it
InOrderP8(r, at) ==
  IF h[r].answered THEN at >= BOOK_HANDLER_TIMEOUT_MS ELSE at <= BOOK_HANDLER_TIMEOUT_MS

\* withTimeout(fn(), attemptTimeout) settles: fn() or the timer, whichever is
\* first; the loop body runs to its next await
RaceSettlesP8(r, out, d) ==
  /\ prog = "P8" /\ h[r].pc = "race"
  /\ UNCHANGED <<cacheVars, prog, env, RUNNING, RUNNING_SINCE, isRunning, sent>>
  /\ LET act == h[r]
         cfg == act.rule.retry
         t == sleep(act.timeout)
         timerWins == out.kind = "hang" \/ d >= t
         at == act.clk + (IF timerWins THEN t ELSE d)
         left == IF ~timerWins THEN act.pending
                 ELSE act.pending \cup {IF out.kind = "hang" THEN Null ELSE <<act.clk + d>>}
         err == IF timerWins THEN PerAttemptTimeoutErrorP8 ELSE ErrP8(out.msg, 0, "")
         failed == [act EXCEPT !.clk = at, !.result = err, !.pending = left]
         backoff == backoffP8(cfg, at)
     IN  /\ InOrderP8(r, at)
         /\ IF ~timerWins /\ out.kind = "resp"
              THEN ReturnP8(r, act, at, JobResult(ok(out.status),
                                                  IF ok(out.status) THEN "BROWSERLESS_OK"
                                                  ELSE "BROWSERLESS_HTTP_ERROR", out.status))
            ELSE IF act.i < cfg.attempts /\ backoff > 0
              THEN h' = [h EXCEPT ![r] = [failed EXCEPT !.pc = "sleep", !.waitMs = backoff]]
            ELSE LoopP8(r, failed, act.i + 1, at)

\* the backoff sleep ends; the for loop goes to its next attempt
SleepEndsP8(r) ==
  /\ prog = "P8" /\ h[r].pc = "sleep"
  /\ UNCHANGED <<cacheVars, prog, env, RUNNING, RUNNING_SINCE, isRunning, sent>>
  /\ InOrderP8(r, h[r].clk + sleep(h[r].waitMs))
  /\ LoopP8(r, h[r], h[r].i + 1, h[r].clk + sleep(h[r].waitMs))

\* the timer of the handler's withTimeout fires before the run has ended: the
\* catch block answers; the run goes on
HandlerTimeoutP8(r) ==
  /\ prog = "P8" /\ h[r].pc \in {"race", "sleep"} /\ ~h[r].answered
  /\ \/ h[r].pc = "race" /\ h[r].clk + sleep(h[r].timeout) > BOOK_HANDLER_TIMEOUT_MS
     \/ h[r].pc = "sleep" /\ h[r].clk + sleep(h[r].waitMs) > BOOK_HANDLER_TIMEOUT_MS
  /\ sent' = [sent EXCEPT ![r] = Append(@, 200)]
  /\ h' = [h EXCEPT ![r] = [@ EXCEPT !.answered = TRUE]]
  /\ UNCHANGED <<cacheVars, prog, env, RUNNING, RUNNING_SINCE, isRunning>>

\* mutant: the run answers although the handler's timer has answered
RespondAgainP8(r) ==
  /\ prog = "P8" /\ h[r].pc = "returned"
  /\ UNCHANGED <<cacheVars, prog, env, RUNNING, RUNNING_SINCE, isRunning>>
  /\ Send(r, 200)

\* the handler after its await: res.status(200) in the try and in the catch;
\* a run that ends after the handler's timer has nothing left to answer
RespondP8(r) ==
  /\ prog = "P8" /\ h[r].pc = "returned"
  /\ UNCHANGED <<cacheVars, prog, env, RUNNING, RUNNING_SINCE, isRunning>>
  /\ IF h[r].answered THEN h' = [h EXCEPT ![r] = Done] /\ UNCHANGED sent
     ELSE Send(r, 200)

EnvP8 == [FullEnv EXCEPT !.ACTIVITY_URL = ProgramsUrl, !.cfg = DefaultCfgP8]

EnvsP8 ==
  {EnvP8,
   [EnvP8 EXCEPT !.API_KEY = ""],
   [EnvP8 EXCEPT !.BROWSERLESS_TOKEN = ""],
   [EnvP8 EXCEPT !.ACTIVITY_URL = <<>>],
   [EnvP8 EXCEPT !.cfg = TightCfgP8]}

DeployP8 == prog = "none" /\ prog' = "P8" /\ env' \in EnvsP8
            /\ UNCHANGED <<cacheVars, RUNNING, RUNNING_SINCE, isRunning, h, sent>>

NextP8 ==
  \/ DeployP8
  \/ \E r \in Requests, apiKey \in ApiKeys, body \in BodiesP8 : BookP8(r, apiKey, body)
  \/ \E r \in Requests, out \in FetchOutcomes, d \in FetchDurations : RaceSettlesP8(r, out, d)
  \/ \E r \in Requests : SleepEndsP8(r)
  \/ \E r \in Requests : HandlerTimeoutP8(r)
  \/ \E r \in Requests : RespondP8(r)

----------------------------------------------------------------------------
(* Program P3b: src/unnamed/part_003 lines 575-763 *)

\* OVERALL_TIMEOUT_MS, PER_ATTEMPT_TIMEOUT_MS and MAX_ATTEMPTS: the defaults,
\* and a tight setting
DefaultCfgP3b ==
  [OVERALL_TIMEOUT_MS |-> 540000, PER_ATTEMPT_TIMEOUT_MS |-> 180000, MAX_ATTEMPTS |-> 3]

TightCfgP3b ==
  [OVERALL_TIMEOUT_MS |-> 20000, PER_ATTEMPT_TIMEOUT_MS |-> 4000, MAX_ATTEMPTS |-> 3]

Routes == {"book", "warmup"}

\* what puppeteer.connect and page.goto do: succeed, throw, or not settle
StepOutcomes == {"ok", "throw", "hang"}

ErrP3b(msg) == [kind |-> "throw", msg |-> msg]

\* page.setDefaultNavigationTimeout(60000) in GET /book
navigationTimeoutMs == 60000

\* One call of the function given to withBrowserlessRetry, started with
\* attemptTimeout: connectBrowser takes d ms, then the route's work on the page.
\* ends is the time the call takes (Null: it never settles), out its outcome.
\* A page.goto that hangs is ended by the navigation timeout or by the kill
\* timer of connectBrowser, whichever is first.
UnitP3b(route, connect, goto, d, attemptTimeout) ==
  IF connect = "hang" THEN [ends |-> Null, out |-> ErrP3b("")]
  ELSE IF connect = "throw" THEN [ends |-> <<d>>, out |-> ErrP3b("connect failed")]
  ELSE IF route = "warmup" THEN [ends |-> <<d>>, out |-> [kind |-> "ok"]]
  ELSE IF env.ACTIVITY_URL = <<>>
    THEN [ends |-> <<d>>, out |-> ErrP3b("Missing ACTIVITY_URL env var")]
  ELSE IF goto = "ok" THEN [ends |-> <<d + d>>, out |-> [kind |-> "ok"]]
  ELSE IF goto = "throw" THEN [ends |-> <<d + d>>, out |-> ErrP3b("net::ERR_FAILED")]
  ELSE [ends |-> <<d + Min(navigationTimeoutMs, attemptTimeout + 5000)>>,
        out |-> ErrP3b("Navigation timeout")]

backoffMsP3b(attempt) == Min(10000, 2000 + (attempt - 1) * 3000)

ReturnP3b(r, act, clk, result) ==
  h' = [h EXCEPT ![r] = [act EXCEPT !.pc = "returned", !.clk = clk, !.result = result,
                                    !.pending = StillPending(act.pending, clk)]]

\* the head of the for loop of withBrowserlessRetry at time clk
LoopP3b(r, act, attempt, clk) ==
  LET remaining == env.cfg.OVERALL_TIMEOUT_MS - clk
  IN  IF attempt > env.cfg.MAX_ATTEMPTS
        THEN ReturnP3b(r, act, clk, ErrP3b("BROWSERLESS_FINAL_FAIL"))
      ELSE IF remaining <= 0
        THEN ReturnP3b(r, act, clk, ErrP3b("overall timeout exceeded"))
      ELSE h' = [h EXCEPT ![r] =
                  [act EXCEPT !.pc = "race", !.attempt = attempt, !.clk = clk,
                              !.timeout = Min(env.cfg.PER_ATTEMPT_TIMEOUT_MS, remaining),
                              !.waitMs = 0, !.fetches = act.fetches + 1,
                              !.pending = StillPending(act.pending, clk)]]

\* GET /book and GET /warmup up to the first await
GetP3b(r, route) ==
  /\ prog = "P3b" /\ h[r].pc = "idle" /\ Quiet
  /\ UNCHANGED <<cacheVars, prog, env, RUNNING, RUNNING_SINCE, isRunning, sent>>
  /\ LoopP3b(r, [pc |-> "idle", route |-> route, attempt |-> 0, clk |-> 0, timeout |-> 0,
                 waitMs |-> 0, fetches |-> 0, pending |-> {}, result |-> ErrP3b("")], 1, 0)

\* Promise.race settles: the function or the sleep-then-throw, whichever is
\* first; the loop body runs to its next await
RaceSettlesP3b(r, connect, goto, d) ==
  /\ prog = "P3b" /\ h[r].pc = "race"
  /\ UNCHANGED <<cacheVars, prog, env, RUNNING, RUNNING_SINCE, isRunning, sent>>
  /\ LET act == h[r]
         t == sleep(act.timeout)
         u == UnitP3b(act.route, connect, goto, d, act.timeout)
         timerWins == u.ends = Null \/ u.ends[1] >= t
         at == act.clk + (IF timerWins THEN t ELSE u.ends[1])
         left == IF ~timerWins THEN act.pending
                 ELSE act.pending
                        \cup {IF u.ends = Null THEN Null ELSE <<act.clk + u.ends[1]>>}
         err == IF timerWins THEN ErrP3b("attempt timeout") ELSE u.out
         failed == [act EXCEPT !.clk = at, !.result = err, !.pending = left]
     IN  IF ~timerWins /\ u.out.kind = "ok" THEN ReturnP3b(r, act, at, u.out)
         ELSE IF act.attempt < env.cfg.MAX_ATTEMPTS
           THEN h' = [h EXCEPT ![r] = [failed EXCEPT !.pc = "sleep",
                                                     !.waitMs = backoffMsP3b(act.attempt)]]
         ELSE LoopP3b(r, failed, act.attempt + 1, at)

\* the backoff sleep ends; the for loop goes to its next attempt
SleepEndsP3b(r) ==
  /\ prog = "P3b" /\ h[r].pc = "sleep"
  /\ UNCHANGED <<cacheVars, prog, env, RUNNING, RUNNING_SINCE, isRunning, sent>>
  /\ LoopP3b(r, h[r], h[r].attempt + 1, h[r].clk + sleep(h[r].waitMs))

\* the route after await withBrowserlessRetry(...)
RespondP3b(r) ==
  /\ prog = "P3b" /\ h[r].pc = "returned"
  /\ UNCHANGED <<cacheVars, prog, env, RUNNING, RUNNING_SINCE, isRunning>>
  /\ IF h[r].result.kind = "throw" THEN Send(r, 500) ELSE Send(r, 200)

EnvP3b == [FullEnv EXCEPT !.ACTIVITY_URL = ProgramsUrl, !.cfg = DefaultCfgP3b]

EnvsP3b ==
  {EnvP3b, [EnvP3b EXCEPT !.ACTIVITY_URL = <<>>], [EnvP3b EXCEPT !.cfg = TightCfgP3b]}

DeployP3b == prog = "none" /\ prog' = "P3b" /\ env' \in EnvsP3b
             /\ UNCHANGED <<cacheVars, RUNNING, RUNNING_SINCE, isRunning, h, sent>>

NextP3b ==
  \/ DeployP3b
  \/ \E r \in Requests, route \in Routes : GetP3b(r, route)
  \/ \E r \in Requests, connect \in StepOutcomes, goto \in StepOutcomes, d \in FetchDurations :
       RaceSettlesP3b(r, connect, goto, d)
  \/ \E r \in Requests : SleepEndsP3b(r)
  \/ \E r \in Requests : RespondP3b(r)

----------------------------------------------------------------------------
(* part_004, first program: src/unnamed/part_004 lines 1-750 *)

\* an environment value or a body field that may be unset (Null) or a number
clampInt(n, min, max, fallback) ==
  IF n = Null THEN fallback ELSE Max(min, Min(max, n[1]))

\* the three tuning values of the environment, all unset or all given
DefaultCfgP4 ==
  [BROWSERLESS_OVERALL_TIMEOUT_MS |-> Null, BROWSERLESS_PER_ATTEMPT_TIMEOUT_MS |-> Null,
   BROWSERLESS_MAX_ATTEMPTS |-> Null]

TightCfgP4 ==
  [BROWSERLESS_OVERALL_TIMEOUT_MS |-> <<5000>>, BROWSERLESS_PER_ATTEMPT_TIMEOUT_MS |-> <<4000>>,
   BROWSERLESS_MAX_ATTEMPTS |-> <<12>>]

retryOptsP4 ==
  [overallTimeoutMs |-> clampInt(env.cfg.BROWSERLESS_OVERALL_TIMEOUT_MS, 30000, 900000, 540000),
   perAttemptTimeoutMs |->
     clampInt(env.cfg.BROWSERLESS_PER_ATTEMPT_TIMEOUT_MS, 10000, 240000, 90000),
   maxAttempts |-> clampInt(env.cfg.BROWSERLESS_MAX_ATTEMPTS, 1, 10, 3),
   minBackoffMs |-> 1000,
   maxBackoffMs |-> 8000]

\* request bodies of the first program: those of src/index.js and one that
\* sets the polling fields
BodiesP4 == Bodies \cup {[pollSeconds |-> 2, pollIntervalMs |-> 60000]}

OptField(body, f) == IF f \in DOMAIN body THEN <<body[f]>> ELSE Null

\* defaults from the environment and overrides from the body
MakeRuleP4(body) ==
  LET DEFAULT_POLL_SECONDS == clampInt(env.POLL_SECONDS, 5, 900, 540)
      DEFAULT_POLL_INTERVAL_MS == clampInt(Null, 500, 15000, 2500)
  IN  [targetDay |-> Field(body, "targetDay", "Wednesday"),
       eveningStart |-> Field(body, "eveningStart", <<"1", "3", ":", "0", "0">>),
       eveningEnd |-> Field(body, "eveningEnd", <<"2", "0", ":", "0", "0">>),
       timeZone |-> Field(body, "timeZone", "America/Toronto"),
       activityUrl |-> Field(body, "activityUrl", ProgramsUrl),
       dryRun |-> Field(body, "dryRun", FALSE),
       pollSeconds |-> clampInt(OptField(body, "pollSeconds"), 5, 900, DEFAULT_POLL_SECONDS),
       pollIntervalMs |->
         clampInt(OptField(body, "pollIntervalMs"), 500, 15000, DEFAULT_POLL_INTERVAL_MS)]

retryableP4(status) == status = 429 \/ (status >= 500 /\ status <= 599)

backoffP4(attempt) ==
  Min(retryOptsP4.maxBackoffMs, retryOptsP4.minBackoffMs * Pow2(attempt - 1))

\* mutant: the result does not say which attempt it comes from
ResultFirstAttemptP4(isOk, resp, attempt, error) ==
  [ok |-> isOk, resp |-> resp, attempt |-> 1, error |-> error]

\* what fetchWithRetry returns: resp is the status of the response the result
\* carries, 0 when it carries none
ResultP4(isOk, resp, attempt, error) ==
  [ok |-> isOk, resp |-> resp, attempt |-> attempt, error |-> error]

\* the text of lastErr in the result after the loop
errorP4(lastErr) ==
  IF lastErr = Null THEN "Unknown error"
  ELSE IF lastErr.kind = "resp" THEN "HTTP_status" ELSE lastErr.msg

\* const reply200 = (payload) => res.status(200).json(payload), and the return
reply200(r, isOk, status) ==
  /\ sent' = [sent EXCEPT ![r] = Append(@, 200)]
  /\ h' = [h EXCEPT ![r] = [pc |-> "done", payload |-> [ok |-> isOk, status |-> status]]]

ReturnP4(r, act, clk, result) ==
  h' = [h EXCEPT ![r] = [act EXCEPT !.pc = "returned", !.clk = clk, !.result = result]]

\* the head of the while loop at time clk, up to the await of fetch
LoopP4(r, act, clk) ==
  IF act.attempt < retryOptsP4.maxAttempts /\ clk < retryOptsP4.overallTimeoutMs
    THEN h' = [h EXCEPT ![r] = [act EXCEPT !.pc = "fetch", !.attempt = act.attempt + 1,
                                           !.clk = clk, !.waitMs = 0,
                                           !.fetches = act.fetches + 1]]
    ELSE ReturnP4(r, act, clk, ResultP4(FALSE, 0, act.attempt, errorP4(act.lastErr)))

\* POST /book up to its first await.  The program shares no state between
\* requests; the model lets one request at a time reach Browserless.
BookP4(r, apiKey, body) ==
  /\ prog = "P4" /\ h[r].pc = "idle"
  /\ UNCHANGED <<cacheVars, prog, env, RUNNING, RUNNING_SINCE, isRunning>>
  /\ IF ~requireApiKey(apiKey) THEN reply200(r, FALSE, "UNAUTHORIZED")
     ELSE IF ConfigStatus # 0 THEN reply200(r, FALSE, "CONFIG_ERROR")
     ELSE IF ~ValidRule(MakeRuleP4(body)) THEN reply200(r, FALSE, "VALIDATION_ERROR")
     ELSE /\ Quiet
          /\ LoopP4(r, [pc |-> "idle", rule |-> MakeRuleP4(body), attempt |-> 0, clk |-> 0,
                        waitMs |-> 0, fetches |-> 0, sleeps |-> 0, lastErr |-> Null,
                        result |-> ResultP4(FALSE, 0, 0, "")], 0)
          /\ UNCHANGED sent

\* fetch and resp.text() under the attempt's AbortController
SettleP4(start, out, d) ==
  IF out.kind = "hang" \/ d >= retryOptsP4.perAttemptTimeoutMs
    THEN [at |-> start + retryOptsP4.perAttemptTimeoutMs, out |-> AbortError]
    ELSE [at |-> start + d, out |-> out]

\* the fetch of the current attempt settles; the loop body runs to its next await
FetchSettlesP4(r, out, d) ==
  /\ prog = "P4" /\ h[r].pc = "fetch"
  /\ UNCHANGED <<cacheVars, prog, env, RUNNING, RUNNING_SINCE, isRunning, sent>>
  /\ LET act == h[r]
         s == SettleP4(act.clk, out, d)
         failed == [act EXCEPT !.pc = "sleep", !.clk = s.at, !.lastErr = s.out,
                               !.waitMs = backoffP4(act.attempt)]
     IN  IF s.out.kind = "resp" /\ ok(s.out.status)
           THEN ReturnP4(r, act, s.at, ResultP4(TRUE, s.out.status, act.attempt, ""))
         ELSE IF s.out.kind = "resp" /\ ~retryableP4(s.out.status)
           THEN ReturnP4(r, act, s.at, ResultP4(FALSE, s.out.status, act.attempt, ""))
         ELSE h' = [h EXCEPT ![r] = failed]

\* the backoff sleep ends; the while loop tests its condition again
SleepEndsP4(r) ==
  /\ prog = "P4" /\ h[r].pc = "sleep"
  /\ UNCHANGED <<cacheVars, prog, env, RUNNING, RUNNING_SINCE, isRunning, sent>>
  /\ LoopP4(r, [h[r] EXCEPT !.sleeps = @ + 1], h[r].clk + sleep(h[r].waitMs))

\* mutant: the handler reports every result as a success
payloadAlwaysOkP4(result) == [ok |-> TRUE, status |-> "BROWSERLESS_OK"]

\* the payload of the handler's answer to the result of fetchWithRetry
payloadP4(result) ==
  IF ~result.ok
    THEN [ok |-> FALSE,
          status |-> IF result.resp # 0 THEN "BROWSERLESS_HTTP_ERROR"
                     ELSE "BROWSERLESS_FETCH_FAILED"]
    ELSE [ok |-> TRUE, status |-> "BROWSERLESS_OK"]

\* the handler after await fetchWithRetry(...)
RespondP4(r) ==
  /\ prog = "P4" /\ h[r].pc = "returned"
  /\ UNCHANGED <<cacheVars, prog, env, RUNNING, RUNNING_SINCE, isRunning>>
  /\ reply200(r, payloadP4(h[r].result).ok, payloadP4(h[r].result).status)

EnvsP4 ==
  {[e EXCEPT !.cfg = DefaultCfgP4] : e \in Envs} \cup {[FullEnv EXCEPT !.cfg = TightCfgP4]}

\* the outcomes of one call of Browserless the first program tells apart
FetchOutcomesP4 == {Resp(s, Null) : s \in Statuses} \cup {NetworkError, Hang}

DeployP4 == /\ prog = "none" /\ prog' = "P4" /\ env' \in EnvsP4
            /\ UNCHANGED <<cacheVars, RUNNING, RUNNING_SINCE, isRunning, h, sent>>

NextP4 ==
  \/ DeployP4
  \/ \E r \in Requests, apiKey \in ApiKeys, body \in BodiesP4 : BookP4(r, apiKey, body)
  \/ \E r \in Requests, out \in FetchOutcomesP4, d \in FetchDurations : FetchSettlesP4(r, out, d)
  \/ \E r \in Requests : SleepEndsP4(r)
  \/ \E r \in Requests : RespondP4(r)

----------------------------------------------------------------------------
(* The remote script of src/index.js from the computation of maxAttempts on:
   version A lines 281-437 (prog "RA"), version B lines 873-1047 (prog "RB").
   An element of Requests is one run of the script in Browserless. *)

MaxIterations == 4

\* what the page shows when getState looks at it: a URL with
\* quickRegisterId=<digits>, /cart or /checkout; a cart or order summary in the
\* text; 'cannot register' or 'registration has not yet been opened' in the text
Observations == [urlCue : BOOLEAN, textCue : BOOLEAN, blocked : BOOLEAN]

\* mutant: a cart cue in the page text counts as success in version A
isRealSuccessOrText(obs) == obs.urlCue \/ obs.textCue

\* isRealSuccess(state.url) of version A
isRealSuccess(obs) == obs.urlCue

\* what getState returns, with the success test of the version: version B's
\* success is Boolean(hasQuickReg || hasCartCue)
getState(obs) ==
  [success |-> IF prog = "RA" THEN isRealSuccess(obs) ELSE obs.urlCue \/ obs.textCue,
   blocked |-> obs.blocked]

\* POLL_SECONDS, POLL_INTERVAL_MS and DRY_RUN of the context: the rule's
\* pollSeconds, pollIntervalMs and dryRun, which validation does not look at
\* the context of a request that overrides nothing, in a deployment with no
\* DRY_RUN, POLL_SECONDS and POLL_INTERVAL_MS in its environment
DefaultContext == [POLL_SECONDS |-> 120, POLL_INTERVAL_MS |-> 5000, DRY_RUN |-> TRUE]

Contexts ==
  {[POLL_SECONDS |-> p[1], POLL_INTERVAL_MS |-> p[2], DRY_RUN |-> d] :
     p \in {<<30, 10000>>, <<2, 60000>>, <<30, 0>>, <<0, 0>>}, d \in BOOLEAN}
    \cup {DefaultContext}

Num(n) == [kind |-> "num", n |-> n]

Infinity == [kind |-> "inf", n |-> 0]

NaN == [kind |-> "nan", n |-> 0]

\* Math.max(1, Math.floor((Number(POLL_SECONDS) * 1000) / Number(POLL_INTERVAL_MS)))
maxAttemptsPoll(ctx) ==
  LET a == ctx.POLL_SECONDS * 1000
      b == ctx.POLL_INTERVAL_MS
  IN  IF b = 0 THEN (IF a > 0 THEN Infinity ELSE IF a = 0 THEN NaN ELSE Num(1))
      ELSE IF b > 0 THEN Num(Max(1, a \div b))
      ELSE Num(Max(1, (0 - a) \div (0 - b)))

\* attempts < maxAttempts
LessThan(attempts, max) ==
  CASE max.kind = "num" -> attempts < max.n
    [] max.kind = "inf" -> TRUE
    [] max.kind = "nan" -> FALSE

\* attempts >= maxAttempts
AtLeast(attempts, max) ==
  CASE max.kind = "num" -> attempts >= max.n
    [] max.kind = "inf" -> FALSE
    [] max.kind = "nan" -> FALSE

\* what the script returns: data.status, data.attempts, clickResult.outcome
\* and data.finalState, the page of the observation it reports; lastClick tells
\* whether clickResult carries a lastClick
DataPoll(status, attempts, outcome, finalState, lastClick) ==
  [pc |-> "done", status |-> status, attempts |-> attempts, outcome |-> outcome,
   finalState |-> finalState, lastClick |-> lastClick]

\* the test of the while loop after a sleep, or the break out of it
LoopPoll(r, act, broke) ==
  h' = [h EXCEPT ![r] =
         [act EXCEPT !.pc = IF ~broke /\ LessThan(act.attempts, act.maxAttempts)
                              THEN "poll" ELSE "final",
                     !.broke = broke]]

\* the script from the computation of maxAttempts to the first test of the
\* while loop: the first getState
\* the runs of a deployment that are explored: "RD" makes one run of the script
\* of version B with the default context, "RA" and "RB" make runs with the
\* other contexts.  The runs of the script share no state.
RunAllowed(ctx) ==
  IF prog = "RD" THEN ctx = DefaultContext /\ \A q \in Requests : h[q].pc = "idle"
  ELSE ctx # DefaultContext

StartPoll(r, ctx, obs) ==
  /\ prog \in {"RA", "RB", "RD"} /\ h[r].pc = "idle" /\ Quiet /\ RunAllowed(ctx)
  /\ UNCHANGED <<cacheVars, prog, env, RUNNING, RUNNING_SINCE, isRunning, sent>>
  /\ IF getState(obs).success
       THEN h' = [h EXCEPT ![r] =
                   IF prog = "RA" THEN DataPoll("BOOKING_CONFIRMED", 0, "", obs, FALSE)
                   ELSE DataPoll("POLLING_DONE", 0, "SUCCESS_ALREADY", obs, FALSE)]
     ELSE LoopPoll(r, [pc |-> "idle", ctx |-> ctx, maxAttempts |-> maxAttemptsPoll(ctx),
                       attempts |-> 0, clk |-> 0, picks |-> 0, closes |-> 0,
                       lastState |-> getState(obs), broke |-> FALSE], FALSE)

\* mutant: a blocked page after the click ends the loop
blockedAfterClickEnds(obs) == obs.success \/ obs.blocked

\* the test that breaks out of the loop after the click
successAfterClick(obs) == obs.success

\* mutant: the script runs as if DRY_RUN were false
DRY_RUN_Ignored(ctx) == FALSE

\* DRY_RUN of the context, as the script reads it
DRY_RUN(ctx) == ctx.DRY_RUN

\* one iteration of the while loop: first is what getState returns at its
\* head, second what it returns after the click
IterationPoll(r, page, pageAfterClick) ==
  /\ prog \in {"RA", "RB", "RD"} /\ h[r].pc = "poll"
  /\ h[r].maxAttempts.kind = "num" \/ h[r].attempts < MaxIterations
  /\ UNCHANGED <<cacheVars, prog, env, RUNNING, RUNNING_SINCE, isRunning, sent>>
  /\ LET act == [h[r] EXCEPT !.attempts = @ + 1]
         interval == sleep(act.ctx.POLL_INTERVAL_MS)
         first == getState(page)
         second == getState(pageAfterClick)
     IN  IF first.success THEN LoopPoll(r, [act EXCEPT !.lastState = first], TRUE)
         ELSE IF first.blocked
           THEN LoopPoll(r, [act EXCEPT !.lastState = first, !.closes = @ + 1,
                                        !.clk = @ + interval], FALSE)
         ELSE IF DRY_RUN(act.ctx)
           THEN LoopPoll(r, [act EXCEPT !.lastState = first, !.clk = @ + interval], FALSE)
         ELSE IF successAfterClick(second)
           THEN LoopPoll(r, [act EXCEPT !.lastState = second, !.picks = @ + 1,
                                        !.clk = @ + 1200], TRUE)
         ELSE LoopPoll(r, [act EXCEPT !.lastState = second, !.picks = @ + 1,
                                      !.closes = IF second.blocked THEN @ + 1 ELSE @,
                                      !.clk = @ + 1200 + interval], FALSE)

\* after the loop: the last getState and the returned data
FinishPoll(r, page) ==
  /\ prog \in {"RA", "RB", "RD"} /\ h[r].pc = "final"
  /\ UNCHANGED <<cacheVars, prog, env, RUNNING, RUNNING_SINCE, isRunning, sent>>
  /\ LET act == h[r]
         finalState == getState(page)
         outcomeA == IF act.picks > 0
                       THEN (IF finalState.success THEN "SUCCESS_CLICKED" ELSE "NO_SUCCESS")
                       ELSE (IF finalState.success THEN "SUCCESS_NOCLICK" ELSE "NO_CLICK")
         outcomeB == IF finalState.success THEN "SUCCESS_CLICKED"
                     ELSE IF AtLeast(act.attempts, act.maxAttempts) THEN "TIMEOUT"
                     ELSE "STOPPED"
     IN  h' = [h EXCEPT ![r] =
                IF prog = "RA"
                  THEN DataPoll(IF finalState.success THEN "BOOKING_CONFIRMED"
                                ELSE "POLLING_DONE", act.attempts, outcomeA, page,
                                act.picks > 0)
                  ELSE DataPoll("POLLING_DONE", act.attempts, outcomeB, page, act.picks > 0)]

\* Browserless runs the script of version A or of version B
DeployPoll == /\ prog = "none" /\ prog' \in {"RA", "RB"}
              /\ UNCHANGED <<cacheVars, env, RUNNING, RUNNING_SINCE, isRunning, h, sent>>

\* Browserless runs the script of version B for a request with the defaults
DeployDefaultRun ==
  /\ prog = "none" /\ prog' = "RD"
  /\ UNCHANGED <<cacheVars, env, RUNNING, RUNNING_SINCE, isRunning, h, sent>>

NextDefaultRun ==
  \/ DeployDefaultRun
  \/ \E r \in Requests, ctx \in Contexts, obs \in Observations : StartPoll(r, ctx, obs)
  \/ \E r \in Requests, page \in Observations, pageAfterClick \in Observations :
       IterationPoll(r, page, pageAfterClick)
  \/ \E r \in Requests, page \in Observations : FinishPoll(r, page)

NextPoll ==
  \/ DeployPoll
  \/ \E r \in Requests, ctx \in Contexts, obs \in Observations : StartPoll(r, ctx, obs)
  \/ \E r \in Requests, page \in Observations, pageAfterClick \in Observations :
       IterationPoll(r, page, pageAfterClick)
  \/ \E r \in Requests, page \in Observations : FinishPoll(r, page)

----------------------------------------------------------------------------
(* pickAndClickCalendarRegister of the remote script: src/index.js lines
   317-383 (version A) and 920-983 (version B, the same text); prog "Pick".
   An element of Requests is one call of the function on a page. *)

MaxCandidates == 3

\* what parseStartMinutes makes of a container's text: nothing, or a minute
StartMinutes == {Null, <<1020>>, <<1170>>, <<1215>>}

\* windowStartMin and windowEndMin: 18:00-21:00 and the default 13:00-20:00
Windows == {<<1080, 1260>>, <<780, 1200>>}

\* the visible Register buttons in document order, each with its parsed time;
\* a button is named by its place in the document
CandidateLists ==
  UNION {{[i \in 1..n |-> [btn |-> i, startMin |-> t[i]]] : t \in [1..n -> StartMinutes]} :
           n \in 0..MaxCandidates}

\* c.startMin != null && c.startMin >= windowStartMin && c.startMin <= windowEndMin
inWindow(c, windowStartMin, windowEndMin) ==
  c.startMin # Null /\ c.startMin[1] >= windowStartMin /\ c.startMin[1] <= windowEndMin

RECURSIVE insert(_, _)

RECURSIVE sortStable(_)

\* .sort((a, b) => a.startMin - b.startMin) is stable: sortStable puts each
\* candidate, from the last to the first, before those that do not start earlier
insert(c, sorted) ==
  IF sorted = <<>> THEN <<c>>
  ELSE IF c.startMin[1] <= sorted[1].startMin[1] THEN <<c>> \o sorted
  ELSE <<sorted[1]>> \o insert(c, Tail(sorted))

sortStable(s) == IF s = <<>> THEN <<>> ELSE insert(s[1], sortStable(Tail(s)))

filtered(candidates, windowStartMin, windowEndMin) ==
  sortStable(SelectSeq(candidates, LAMBDA c : inWindow(c, windowStartMin, windowEndMin)))

\* mutant: the first candidate of the document is picked, whatever its time
pickFirstCandidate(candidates, windowStartMin, windowEndMin) ==
  IF candidates # <<>> THEN <<candidates[1]>> ELSE Null

\* const pick = filtered[0] || candidates[0] || null
pick(candidates, windowStartMin, windowEndMin) ==
  LET f == filtered(candidates, windowStartMin, windowEndMin)
  IN  IF f # <<>> THEN <<f[1]>> ELSE IF candidates # <<>> THEN <<candidates[1]>> ELSE Null

\* mutant: without a candidate in the window nothing is clicked
clickResultNoFallback(candidates, windowStartMin, windowEndMin) ==
  LET f == filtered(candidates, windowStartMin, windowEndMin)
  IN  IF f = <<>>
        THEN [clicked |-> FALSE, reason |-> "NO_REGISTER_FOUND", btn |-> Null,
              pickedStartMin |-> Null,
              candidatesFound |-> Len(candidates), filteredFound |-> 0]
        ELSE [clicked |-> TRUE, reason |-> "CLICKED_TIME_MATCH",
              btn |-> <<f[1].btn>>, pickedStartMin |-> f[1].startMin,
              candidatesFound |-> Len(candidates), filteredFound |-> Len(f)]

\* what the function returns, and the button it has clicked; candidates[0] of
\* the fallback has no startMin property
clickResult(candidates, windowStartMin, windowEndMin) ==
  LET f == filtered(candidates, windowStartMin, windowEndMin)
      p == pick(candidates, windowStartMin, windowEndMin)
  IN  IF p = Null
        THEN [clicked |-> FALSE, reason |-> "NO_REGISTER_FOUND", btn |-> Null,
              pickedStartMin |-> Null,
              candidatesFound |-> Len(candidates), filteredFound |-> Len(f)]
        ELSE [clicked |-> TRUE,
              reason |-> IF f # <<>> THEN "CLICKED_TIME_MATCH" ELSE "CLICKED_FALLBACK",
              btn |-> <<p[1].btn>>,
              pickedStartMin |-> IF f # <<>> THEN p[1].startMin ELSE Null,
              candidatesFound |-> Len(candidates), filteredFound |-> Len(f)]

\* page.evaluate is called on a page with these candidates
EvaluatePick(r, candidates, window) ==
  /\ prog = "Pick" /\ h[r].pc = "idle" /\ Quiet
  /\ h' = [h EXCEPT ![r] = [pc |-> "evaluate", candidates |-> candidates,
                            windowStartMin |-> window[1], windowEndMin |-> window[2]]]
  /\ UNCHANGED <<cacheVars, prog, env, RUNNING, RUNNING_SINCE, isRunning, sent>>

\* the function runs in the page and returns
ReturnPick(r) ==
  /\ prog = "Pick" /\ h[r].pc = "evaluate"
  /\ h' = [h EXCEPT ![r] =
            [pc |-> "done",
             lastClick |-> clickResult(h[r].candidates, h[r].windowStartMin,
                                       h[r].windowEndMin)]]
  /\ UNCHANGED <<cacheVars, prog, env, RUNNING, RUNNING_SINCE, isRunning, sent>>

DeployPick == /\ prog = "none" /\ prog' = "Pick"
              /\ UNCHANGED <<cacheVars, env, RUNNING, RUNNING_SINCE, isRunning, h, sent>>

NextPick ==
  \/ DeployPick
  \/ \E r \in Requests, candidates \in CandidateLists, window \in Windows :
       EvaluatePick(r, candidates, window)
  \/ \E r \in Requests : ReturnPick(r)

----------------------------------------------------------------------------

(* src/unnamed/part_000: /warmup and /book with the in-memory cookie cache *)

\* how far the clock of the deployment is let run, in hours
MaxHours == 3

MAX_ATTEMPTS == 3

\* the steps by which the clock advances between two steps of the program
Elapses == {3600000, 3599999}

\* the cookie arrays that page.cookies() returns
CookieJars == {<<>>, <<"sid">>}

\* what callBrowserlessFunction gives for /warmup: { httpStatus, body } with
\* body.ok and body.cookies (an array <<a>>, or not an array), or a thrown error
WarmupOutcomes ==
  {[kind |-> "resp", httpStatus |-> 200, bodyOk |-> TRUE, cookies |-> <<jar>>] :
     jar \in CookieJars}
    \cup {[kind |-> "resp", httpStatus |-> 200, bodyOk |-> TRUE, cookies |-> Null],
          [kind |-> "resp", httpStatus |-> 200, bodyOk |-> FALSE, cookies |-> <<(<<"sid">>)>>],
          [kind |-> "resp", httpStatus |-> 503, bodyOk |-> TRUE, cookies |-> <<(<<"sid">>)>>],
          [kind |-> "throw", httpStatus |-> 0, bodyOk |-> FALSE, cookies |-> Null]}

\* what callBrowserlessFunction gives for /book
BookOutcomes ==
  {[kind |-> "resp", httpStatus |-> s] : s \in {200, 503}}
    \cup {[kind |-> "throw", httpStatus |-> 0]}

isAuthOk(apiKey) ==
  env.API_KEY # "" /\ apiKey # <<>> /\ apiKey[1] # "" /\ apiKey[1] = env.API_KEY

ok200(r, isOk, status) ==
  /\ sent' = [sent EXCEPT ![r] = Append(@, 200)]
  /\ h' = [h EXCEPT ![r] = [pc |-> "done", payload |-> [ok |-> isOk, status |-> status]]]

\* the test of the function given to withRetry in /warmup
warmupOk(out) ==
  out.kind = "resp" /\ ok(out.httpStatus) /\ out.bodyOk /\ out.cookies # Null

\* POST /warmup up to its first await
WarmupP0(r, apiKey) ==
  /\ prog = "P0" /\ h[r].pc = "idle"
  /\ UNCHANGED <<cacheVars, prog, env, RUNNING, RUNNING_SINCE, isRunning>>
  /\ IF ~isAuthOk(apiKey) THEN ok200(r, FALSE, "UNAUTHORIZED")
     ELSE IF env.BROWSERLESS_TOKEN = "" THEN ok200(r, FALSE, "CONFIG_ERROR")
     ELSE IF env.AMILIA_EMAIL = "" \/ env.AMILIA_PASSWORD = ""
       THEN ok200(r, FALSE, "CONFIG_ERROR")
     ELSE /\ h' = [h EXCEPT ![r] = [pc |-> "warmup", attempt |-> 1]]
          /\ UNCHANGED sent

\* callBrowserlessFunction of /warmup settles: withRetry returns, calls fn
\* again, or throws after MAX_ATTEMPTS calls
WarmupSettlesP0(r, out) ==
  /\ prog = "P0" /\ h[r].pc = "warmup"
  /\ UNCHANGED <<prog, env, RUNNING, RUNNING_SINCE, isRunning, now>>
  /\ IF warmupOk(out) \/ h[r].attempt >= MAX_ATTEMPTS
       THEN /\ IF warmupOk(out)
                 THEN cachedCookies' = out.cookies /\ cachedCookiesAt' = now
                 ELSE UNCHANGED <<cachedCookies, cachedCookiesAt>>
            /\ IF warmupOk(out) THEN ok200(r, TRUE, "WARMUP_OK")
               ELSE ok200(r, FALSE, "BROWSERLESS_HTTP_ERROR")
       ELSE /\ h' = [h EXCEPT ![r] = [@ EXCEPT !.attempt = @ + 1]]
            /\ UNCHANGED <<cachedCookies, cachedCookiesAt, sent>>

\* mutant: the age of the cache is not looked at
cookiesToUseAnyAge == cachedCookies

\* an array, even an empty one, is truthy
cookiesToUse ==
  IF cachedCookies # Null /\ now - cachedCookiesAt < 2 * 60 * 60 * 1000
    THEN cachedCookies ELSE Null

\* POST /book up to its first await
BookP0(r, apiKey) ==
  /\ prog = "P0" /\ h[r].pc = "idle"
  /\ UNCHANGED <<cacheVars, prog, env, RUNNING, RUNNING_SINCE, isRunning>>
  /\ IF ~isAuthOk(apiKey) THEN ok200(r, FALSE, "UNAUTHORIZED")
     ELSE IF env.BROWSERLESS_TOKEN = "" THEN ok200(r, FALSE, "CONFIG_ERROR")
     ELSE /\ h' = [h EXCEPT ![r] = [pc |-> "book", cookies |-> cookiesToUse]]
          /\ UNCHANGED sent

\* callBrowserlessFunction of /book settles
BookSettlesP0(r, out) ==
  /\ prog = "P0" /\ h[r].pc = "book"
  /\ UNCHANGED <<cacheVars, prog, env, RUNNING, RUNNING_SINCE, isRunning>>
  /\ IF out.kind = "resp" /\ ok(out.httpStatus) THEN ok200(r, TRUE, "BROWSERLESS_OK")
     ELSE ok200(r, FALSE, "BROWSERLESS_HTTP_ERROR")

\* time passes
TickP0(d) ==
  /\ prog = "P0" /\ now + d <= MaxHours * 3600000
  /\ now' = now + d
  /\ UNCHANGED <<prog, env, RUNNING, RUNNING_SINCE, isRunning, cachedCookies,
                 cachedCookiesAt, h, sent>>

DeployP0 == /\ prog = "none" /\ prog' = "P0" /\ env' \in Envs
            /\ UNCHANGED <<cacheVars, RUNNING, RUNNING_SINCE, isRunning, h, sent>>

NextP0 ==
  \/ DeployP0
  \/ \E r \in Requests, apiKey \in ApiKeys : WarmupP0(r, apiKey)
  \/ \E r \in Requests, out \in WarmupOutcomes : WarmupSettlesP0(r, out)
  \/ \E r \in Requests, apiKey \in ApiKeys : BookP0(r, apiKey)
  \/ \E r \in Requests, out \in BookOutcomes : BookSettlesP0(r, out)
  \/ \E d \in Elapses : TickP0(d)

----------------------------------------------------------------------------

(* The remote script of src/unnamed/part_001, lines 189-420, from the
   computation of the deadline to the value it returns.  An element of
   Requests is one run of the script in Browserless. *)

\* pollSeconds, pollIntervalMs and dryRun of the context
ContextsP1 ==
  [pollSeconds : {5}, pollIntervalMs : {1000, 2500}, dryRun : BOOLEAN]

\* how long isRegisterOpen, or the steps before the loop beyond their fixed
\* waits, take in ms
StepDurationsP1 == {10, 400}

deadlineP1(ctx) == ctx.pollSeconds * 1000

ReturnP1(r, status, clicked) ==
  h' = [h EXCEPT ![r] = [pc |-> "done", status |-> status, clicked |-> clicked]]

\* the script up to the first test of the while loop: goto, the wait of
\* 1500 ms, tryLogin
StartP1(r, ctx, d) ==
  /\ prog = "R1" /\ h[r].pc = "idle" /\ Quiet
  /\ UNCHANGED <<cacheVars, prog, env, RUNNING, RUNNING_SINCE, isRunning, sent>>
  /\ h' = [h EXCEPT ![r] = [pc |-> "poll", ctx |-> ctx, clk |-> 1500 + d]]

\* the test of the while loop and, when it holds, one iteration; when the loop
\* is left, the test of the deadline that follows it.  isRegisterOpen takes d ms
\* and says open; page.click succeeds or throws
IterationP1(r, open, d, clickOk) ==
  /\ prog = "R1" /\ h[r].pc = "poll"
  /\ UNCHANGED <<cacheVars, prog, env, RUNNING, RUNNING_SINCE, isRunning, sent>>
  /\ LET ctx == h[r].ctx
         deadline == deadlineP1(ctx)
         afterClick == h[r].clk + d + 1500
     IN  IF ~(h[r].clk < deadline) THEN ReturnP1(r, "REGISTER_NOT_OPEN_IN_TIME", FALSE)
         ELSE IF ~open
           THEN h' = [h EXCEPT ![r] = [@ EXCEPT !.clk = @ + d + ctx.pollIntervalMs]]
         ELSE IF ctx.dryRun THEN ReturnP1(r, "DRYRUN_REGISTER_OPEN", FALSE)
         ELSE IF ~clickOk THEN ReturnP1(r, "EXCEPTION", FALSE)
         ELSE IF afterClick >= deadline
           THEN ReturnP1(r, "REGISTER_NOT_OPEN_IN_TIME", TRUE)
         ELSE h' = [h EXCEPT ![r] = [pc |-> "steps", ctx |-> ctx, clk |-> afterClick]]

\* steps 4 to 6 of the script, after the click on Register
FlowP1(r) ==
  /\ prog = "R1" /\ h[r].pc = "steps"
  /\ UNCHANGED <<cacheVars, prog, env, RUNNING, RUNNING_SINCE, isRunning, sent>>
  /\ ReturnP1(r, "FLOW_DONE", TRUE)

DeployP1 == /\ prog = "none" /\ prog' = "R1"
            /\ UNCHANGED <<cacheVars, env, RUNNING, RUNNING_SINCE, isRunning, h, sent>>

NextP1 ==
  \/ DeployP1
  \/ \E r \in Requests, ctx \in ContextsP1, d \in StepDurationsP1 : StartP1(r, ctx, d)
  \/ \E r \in Requests, open \in BOOLEAN, d \in StepDurationsP1, clickOk \in BOOLEAN :
       IterationP1(r, open, d, clickOk)
  \/ \E r \in Requests : FlowP1(r)

----------------------------------------------------------------------------

(* parseStartMinutes of the remote script, src/index.js lines 344-361 (version
   B: lines 945-961), applied to the text of one candidate *)

\* the text of a candidate, as the two patterns see it: no H:MM at all, or the
\* first one or two digits and two digits around a colon, as numbers, followed
\* by am, by pm or by neither
Texts ==
  {Null} \cup {<<hh, mm, ap>> : hh \in {0, 7, 11, 12, 13, 19, 23, 24, 99},
                                mm \in {0, 59, 60, 99}, ap \in {"", "am", "pm"}}

parseStartMinutes(text) ==
  IF text = Null THEN Null
  ELSE LET hh == text[1]
           mm == text[2]
           ap == text[3]
       IN  IF ap \in {"am", "pm"}
             THEN LET hh2 == IF ap = "pm" /\ hh # 12 THEN hh + 12
                             ELSE IF ap = "am" /\ hh = 12 THEN 0 ELSE hh
                  IN  <<hh2 * 60 + mm>>
           ELSE IF hh <= 23 /\ mm <= 59 THEN <<hh * 60 + mm>>
           ELSE Null

\* the function is applied to the text of a candidate
ParseText(r, text) ==
  /\ prog = "Parse" /\ h[r].pc = "idle"
  /\ h' = [h EXCEPT ![r] = [pc |-> "done", text |-> text,
                            startMin |-> parseStartMinutes(text)]]
  /\ UNCHANGED <<cacheVars, prog, env, RUNNING, RUNNING_SINCE, isRunning, sent>>

DeployParse == /\ prog = "none" /\ prog' = "Parse"
               /\ UNCHANGED <<cacheVars, env, RUNNING, RUNNING_SINCE, isRunning, h, sent>>

NextParse ==
  \/ DeployParse
  \/ \E r \in Requests, text \in Texts : ParseText(r, text)

----------------------------------------------------------------------------

Init ==
  /\ prog = "none"
  /\ env = FullEnv
  /\ RUNNING = FALSE
  /\ RUNNING_SINCE = Null
  /\ isRunning = FALSE
  /\ cachedCookies = Null
  /\ cachedCookiesAt = 0
  /\ now = 0
  /\ h = [r \in Requests |-> Idle]
  /\ sent = [r \in Requests |-> <<>>]

Next == NextA \/ NextB \/ NextP2 \/ NextP3 \/ NextP3b \/ NextP8 \/ NextP4 \/ NextPoll \/ NextPick
          \/ NextP0 \/ NextDefaultRun \/ NextP1 \/ NextParse

Spec == Init /\ [][Next]_vars

\* the deployments of one version, or of the versions a property is about
SpecA == Init /\ [][NextA]_vars

SpecB == Init /\ [][NextB]_vars

SpecIndex == Init /\ [][NextA \/ NextB]_vars

SpecP2 == Init /\ [][NextP2]_vars

SpecLock == Init /\ [][NextA \/ NextP2]_vars

SpecP3 == Init /\ [][NextP3]_vars

SpecP8 == Init /\ [][NextP8]_vars

SpecBudget == Init /\ [][NextP3 \/ NextP8]_vars

SpecP3b == Init /\ [][NextP3b]_vars

SpecRace == Init /\ [][NextP3b \/ NextP8]_vars

SpecP4 == Init /\ [][NextP4]_vars

SpecPoll == Init /\ [][NextPoll]_vars

SpecPick == Init /\ [][NextPick]_vars

SpecDefaultRun == Init /\ [][NextDefaultRun]_vars

SpecP0 == Init /\ [][NextP0]_vars

SpecP1 == Init /\ [][NextP1]_vars

SpecParse == Init /\ [][NextParse]_vars

\* Version A alone.  A pending fetch settles (the abort timer ends it at the
\* latest), a timer of sleep fires, and a resumed handler runs on.
ProgressA ==
  \E r \in Requests :
    \/ \E out \in FetchOutcomes, d \in FetchDurations, rnd \in RandomValues :
         FetchSettlesA(r, out, d, rnd)
    \/ SleepEndsA(r)
    \/ RespondA(r)

FairSpecA == Init /\ [][NextA]_vars /\ WF_vars(ProgressA)

----------------------------------------------------------------------------
(* Claims *)

Active(r) == h[r].pc \in {"fetch", "sleep", "returned"}

\* C1: in both POST /book handlers of src/index.js every response sent has
\* HTTP status 200, whatever went wrong.
C1_AlwaysStatus200 ==
  prog \in {"A", "B"} =>
    \A r \in Requests : \A i \in DOMAIN sent[r] : sent[r][i] = 200

\* the run lock of the deployed version
Locked == IF prog = "A" THEN RUNNING ELSE isRunning

RejectStatus == IF prog = "A" THEN 409 ELSE 429

\* C2: in version A and in part_002, at most one request at a time is past the
\* run-lock check, and that request holds the lock; a request that arrives
\* while the lock is held is answered at once, with 409 or 429 (401 when its
\* API key is not valid), and never calls Browserless.
C2_OneRunAtATime ==
  /\ [](prog \in {"A", "P2"} =>
         \A r, q \in Requests : Active(r) => (Locked /\ (Active(q) => r = q)))
  /\ [][\A r \in Requests :
         (prog \in {"A", "P2"} /\ Locked /\ h[r].pc = "idle" /\ h'[r].pc # "idle")
           => (h'[r].pc = "done" /\ sent'[r] \in {<<401>>, <<RejectStatus>>})]_vars

C2_Witness ==
  \E r, q \in Requests :
    /\ prog = "P2" /\ isRunning
    /\ h[r].pc = "sleep" /\ h[r].fetches = 2
    /\ h[q].pc = "done" /\ sent[q] = <<429>>

\* C3: in version A, whenever RUNNING is set it is later set back to false and
\* RUNNING_SINCE to null, on every exit path; RUNNING is never left set by a run
\* that has ended.
C3_LockReleasedA ==
  /\ [](RUNNING => \E r \in Requests : Active(r))
  /\ (RUNNING ~> (~RUNNING /\ RUNNING_SINCE = Null))

C3_Witness ==
  \E r \in Requests : prog = "A" /\ sent[r] = <<504>> /\ ~RUNNING /\ RUNNING_SINCE = Null

\* C4: one run of fetchWithRetry of src/index.js (both versions) calls fetch at
\* most maxAttempts times.
C4_FetchAtMostMaxAttempts ==
  \A r \in Requests :
    /\ (prog = "A" /\ Active(r)) => h[r].fetches <= maxAttemptsA
    /\ (prog = "B" /\ Active(r)) => h[r].fetches <= env.cfg.maxAttempts

C4_Witness ==
  \E r \in Requests :
    /\ prog = "B" /\ h[r].pc = "returned"
    /\ h[r].fetches = env.cfg.maxAttempts /\ h[r].result.kind = "throw"

\* C5: in version B, a run in which every attempt ends in a retryable failure
\* has thrown by overallTimeoutMs + maxBackoffMs + 499 ms after its start.
C5_EndsWithinOverallPlusBackoff ==
  \A r \in Requests :
    (prog = "B" /\ h[r].pc = "returned" /\ h[r].allRetry /\ h[r].result.kind = "throw")
      => h[r].clk <= env.cfg.overallTimeoutMs + env.cfg.maxBackoffMs + 499

\* the overall deadline of the run of activation r, on its clock
Deadline == IF prog = "A" THEN timeoutMsA ELSE env.cfg.overallTimeoutMs

\* C6: neither fetchWithRetry of src/index.js starts a backoff sleep that lasts
\* longer than the time left until its overall deadline.
C6_SleepWithinDeadline ==
  \A r \in Requests :
    (prog \in {"A", "B"} /\ h[r].pc = "sleep")
      => sleep(h[r].waitMs) <= Deadline - h[r].clk

\* C7: in version A, once the 285000 ms abort timer has fired, no fetch attempt
\* and no backoff sleep is started.
C7_NothingStartsAfterAbortA ==
  \A r \in Requests :
    (prog = "A" /\ h[r].pc \in {"fetch", "sleep"}) => h[r].clk < timeoutMsA

\* a non-2xx status that is not retryable (400, 401, 404, ...)
FatalStatus(s) == s >= 300 /\ s \notin {408, 429} /\ ~(s >= 500 /\ s <= 599)

\* the overall budget, the per-attempt timeout and the attempts of the run of
\* activation r in part_003 (first program) and part_008
Budget(r) ==
  IF prog = "P3" THEN env.cfg.overallBudgetMs ELSE h[r].rule.retry.overallTimeoutMs

PerAttempt(r) ==
  IF prog = "P3" THEN env.cfg.perAttemptTimeoutMs ELSE h[r].rule.retry.perAttemptTimeoutMs

AttemptsLeft(r) ==
  IF prog = "P3" THEN h[r].attempt < env.cfg.maxAttempts
  ELSE h[r].i < h[r].rule.retry.attempts

OverallError == IF prog = "P3" THEN BudgetErrorP3 ELSE OverallTimeoutErrorP8

InRun(r) == h[r].pc \in {"fetch", "race", "sleep", "returned"}

\* C8: in fetchWithRetry of part_003 and fetchWithRetryOverall of part_008 an
\* attempt runs only with a positive remaining budget and with the timeout
\* min(perAttemptTimeoutMs, remaining); the unit of work is invoked only when
\* the remaining budget is positive; a run that comes to a further attempt with
\* no budget left ends with the overall-timeout error and without invoking the
\* unit of work, and the handler answers with that error (504 in part_003, the
\* 200 of part_008).
C8_AttemptWithinBudget ==
  /\ [](\A r \in Requests :
         (prog \in {"P3", "P8"} /\ h[r].pc \in {"fetch", "race"})
           => /\ Budget(r) - h[r].clk > 0
              /\ h[r].timeout = Min(PerAttempt(r), Budget(r) - h[r].clk))
  /\ [][\A r \in Requests :
         (prog \in {"P3", "P8"} /\ InRun(r) /\ InRun(r)')
           => /\ h'[r].fetches > h[r].fetches => Budget(r) - h'[r].clk > 0
              /\ (h'[r].pc = "returned" /\ h[r].pc # "returned" /\ AttemptsLeft(r)
                    /\ Budget(r) - h'[r].clk <= 0)
                   => (h'[r].result = OverallError /\ h'[r].fetches = h[r].fetches)]_vars
  /\ [][\A r \in Requests :
         (prog \in {"P3", "P8"} /\ h[r].pc = "returned" /\ h[r].result = OverallError
            /\ h'[r].pc = "done")
           => sent'[r] = <<IF prog = "P3" THEN 504 ELSE 200>>]_vars

C8_Witness ==
  \E r \in Requests :
    /\ prog = "P3" /\ h[r].pc = "returned" /\ h[r].result = BudgetErrorP3
    /\ h[r].fetches < env.cfg.maxAttempts

\* C9: within one run of fetchWithRetryOverall (part_008) or withBrowserlessRetry
\* (part_003), an attempt begins only when no earlier call of the unit of work
\* is still executing.
C9_OneUnitInFlight ==
  \A r \in Requests :
    (prog \in {"P8", "P3b"} /\ h[r].pc = "race") => h[r].pending = {}

\* C10: in version B, a non-2xx answer with a status that is not retryable ends
\* the run at once: the error is thrown with no further fetch and no sleep.
C10_FatalStatusEndsRunB ==
  [][\A r \in Requests :
       (prog = "B" /\ h[r].pc = "fetch" /\ h'[r].pc # "fetch"
          /\ FatalStatus(h'[r].result.status))
         => /\ h'[r].pc = "returned"
            /\ h'[r].result.kind = "throw"
            /\ h'[r].fetches = h[r].fetches]_vars

C10_Witness ==
  \E r \in Requests :
    /\ prog = "B" /\ h[r].pc = "returned" /\ h[r].result.status = 400
    /\ h[r].attempt < env.cfg.maxAttempts /\ h[r].fetches = 1

\* the statuses the retry contract names as transient
TransientStatus(s) == s \in {408, 429} \/ (s >= 500 /\ s <= 599)

\* C11: in both versions of src/index.js, a non-2xx answer to an attempt that
\* is not the last one is retried (a backoff sleep follows) exactly when its
\* status is 408, 429 or 5xx; every other non-2xx status ends the run.
C11_RetryableExactly ==
  [][\A r \in Requests :
       (prog \in {"A", "B"} /\ h[r].pc = "fetch" /\ h'[r].pc # "fetch"
          /\ h'[r].result.status >= 300
          /\ h[r].attempt < (IF prog = "A" THEN maxAttemptsA ELSE env.cfg.maxAttempts))
         => (h'[r].pc = "sleep" <=> TransientStatus(h'[r].result.status))]_vars

\* C12: in part_008, an attempt answered with a transient status (408, 429 or
\* 5xx) is followed by another attempt (after its backoff) whenever attempts
\* and overall budget remain.
C12_TransientStatusRetried ==
  [][\A r \in Requests :
       (prog = "P8" /\ h[r].pc = "race" /\ h'[r].pc = "returned"
          /\ h'[r].result.kind = "job" /\ TransientStatus(h'[r].result.httpStatus))
         => (h[r].i >= h[r].rule.retry.attempts
               \/ h'[r].clk >= h[r].rule.retry.overallTimeoutMs)]_vars

\* the four environment values the handlers of src/index.js need
EnvComplete ==
  /\ env.BROWSERLESS_HTTP_BASE # "" /\ env.BROWSERLESS_TOKEN # ""
  /\ env.AMILIA_EMAIL # "" /\ env.AMILIA_PASSWORD # ""

\* C13: in both handlers of src/index.js, a request that finds an environment
\* value missing or builds an invalid rule is answered at once (401, 409, 500
\* or 400) without a single call of Browserless: the first call is made only
\* with a complete environment and a valid rule.
C13_NoCallWithoutConfigAndRule ==
  [][\A r \in Requests :
       (prog \in {"A", "B"} /\ h[r].pc = "idle" /\ h'[r].pc # "idle")
         => IF h'[r].pc = "fetch"
              THEN EnvComplete /\ ValidRule(h'[r].rule) /\ h'[r].fetches = 1
                     /\ sent'[r] = sent[r]
              ELSE /\ h'[r].pc = "done"
                   /\ \E s \in {400, 401, 409, 500} : sent'[r] = Append(sent[r], s)]_vars

\* a request with an invalid rule was answered 400 in a complete environment
C13_Witness ==
  \E r \in Requests :
    prog \in {"A", "B"} /\ EnvComplete /\ h[r].pc = "done" /\ sent[r] = <<400>>

\* C14: in withBrowserlessRetry of part_003, an attempt that fails with
\* 'Missing ACTIVITY_URL env var' ends the run: no backoff sleep and no further
\* attempt follows it.
C14_MissingUrlNotRetried ==
  [][\A r \in Requests :
       (prog = "P3b" /\ h[r].pc = "race" /\ h'[r].pc # "race"
          /\ h'[r].result = ErrP3b("Missing ACTIVITY_URL env var"))
         => (h'[r].pc = "returned" /\ h'[r].fetches = 1)]_vars

\* C15: in the first program of part_004, fetchWithRetry always returns a
\* result object (ok exactly when an attempt got a 2xx answer), and POST /book
\* sends exactly one response for it, with ok = false and a status string
\* whenever no attempt got a 2xx.
C15_ResultAndOneResponse ==
  [][\A r \in Requests :
       prog = "P4" =>
         /\ Len(sent'[r]) <= 1
         /\ (h[r].pc \in {"fetch", "sleep"} /\ h'[r].pc \notin {"fetch", "sleep"})
              => /\ h'[r].pc = "returned"
                 /\ h'[r].result.ok = ok(h'[r].result.resp)
         /\ (h[r].pc = "returned" /\ h'[r] # h[r])
              => /\ h'[r].pc = "done" /\ sent'[r] = <<200>>
                 /\ ~h[r].result.ok
                      => /\ h'[r].payload.ok = FALSE
                         /\ h'[r].payload.status
                              \in {"BROWSERLESS_HTTP_ERROR", "BROWSERLESS_FETCH_FAILED"}]_vars

\* every attempt failed with a retryable outcome and the one response was sent
C15_Witness ==
  \E r \in Requests :
    /\ prog = "P4" /\ h[r].pc = "done" /\ sent[r] = <<200>>
    /\ h[r].payload = [ok |-> FALSE, status |-> "BROWSERLESS_FETCH_FAILED"]

\* C16: in part_008, POST /book sends exactly one response, no later than
\* BOOK_HANDLER_TIMEOUT_MS after the handler starts: the run answers only when
\* it ends by then, otherwise the handler's timer answers, and what is still
\* pending after the timer never sends a second response.
C16_OneResponseByHandlerTimeout ==
  [][\A r \in Requests :
       prog = "P8" =>
         /\ sent'[r] # sent[r]
              => /\ sent[r] = <<>> /\ Len(sent'[r]) = 1
                 /\ \/ h[r].pc = "idle"
                    \/ h[r].pc = "returned" /\ h[r].clk <= BOOK_HANDLER_TIMEOUT_MS
                    \/ /\ h[r].pc \in {"race", "sleep"} /\ h[r].clk <= BOOK_HANDLER_TIMEOUT_MS
                       /\ h'[r].answered
         /\ (h[r].pc \in {"race", "sleep"} /\ ~h[r].answered /\ ~h'[r].answered)
              => h'[r].clk <= BOOK_HANDLER_TIMEOUT_MS
         /\ h'[r].pc = "done" => Len(sent'[r]) = 1]_vars

\* the handler's timer has answered and the run has ended after it
C16_Witness ==
  \E r \in Requests :
    /\ prog = "P8" /\ h[r].pc = "returned" /\ h[r].answered
    /\ h[r].clk > BOOK_HANDLER_TIMEOUT_MS /\ sent[r] = <<200>>

\* C18: in fetchWithRetryOverall of part_008 with overallTimeoutMs = 5000,
\* perAttemptTimeoutMs = 4000 and attempts >= 2, a first attempt that runs its
\* full 4000 ms and fails is followed by no second attempt: the run ends with
\* the overall-timeout error.
C18_NoSecondAttemptInLastSecond ==
  \A r \in Requests :
    (prog = "P8" /\ h[r].pc \in {"race", "sleep", "returned"}
       /\ h[r].rule.retry.overallTimeoutMs = 5000
       /\ h[r].rule.retry.perAttemptTimeoutMs = 4000
       /\ h[r].rule.retry.attempts >= 2
       /\ h[r].clk >= 4000)
      => /\ h[r].fetches = 1
         /\ h[r].pc = "returned" => h[r].result = OverallTimeoutErrorP8

\* C17: in the first program of part_004, a successful result of
\* fetchWithRetry reports attempt = k + 1 after k retryable failures: it was
\* reached by exactly k + 1 fetch calls and k backoff sleeps (429, 429, 2xx
\* gives attempt = 3 after three calls and two sleeps).
C17_AttemptCountsFailuresPlusOne ==
  \A r \in Requests :
    (prog = "P4" /\ h[r].pc = "returned" /\ h[r].result.ok)
      => /\ h[r].result.attempt = h[r].sleeps + 1
         /\ h[r].fetches = h[r].sleeps + 1
         /\ h[r].sleeps < retryOptsP4.maxAttempts

\* 429, 429 and then a 2xx answer
C17_Witness ==
  \E r \in Requests :
    /\ prog = "P4" /\ h[r].pc = "returned" /\ h[r].result.ok
    /\ h[r].lastErr = Resp(429, Null)
    /\ h[r].result.attempt = 3 /\ h[r].fetches = 3 /\ h[r].sleeps = 2

\* C19: the poll loop of version B runs at most
\* N = max(1, floor(POLL_SECONDS * 1000 / POLL_INTERVAL_MS)) iterations, N a
\* number, for every rule validation accepts, and a run in which no iteration
\* observed success reports the outcome TIMEOUT with attempts = N.
C19_AtMostNIterationsThenTimeout ==
  [][\A r \in Requests :
       prog = "RB" =>
         /\ h'[r].pc \in {"poll", "final"}
              => /\ h'[r].maxAttempts.kind = "num"
                 /\ h'[r].attempts <= h'[r].maxAttempts.n
         /\ (h[r].pc = "final" /\ ~h[r].broke /\ h'[r].pc = "done")
              => /\ h'[r].outcome = "TIMEOUT"
                 /\ h'[r].attempts = h[r].maxAttempts.n]_vars

\* the page shows 'cannot register' or 'registration has not yet been opened'
\* and no success
BlockedOnly(obs) == obs.blocked /\ ~obs.success

\* C20: in the poll loop of both versions of src/index.js, an iteration whose
\* last getState sees a blocked or not-yet-open page and no success calls
\* closeModalIfPresent once, sleeps POLL_INTERVAL_MS and clicks nothing after
\* that observation; it does not end the loop: the loop is left only after a
\* getState that saw success or when attempts < maxAttempts is false.
C20_BlockedIterationGoesOn ==
  [][\A r \in Requests :
       (prog \in {"RA", "RB"} /\ h[r].pc = "poll" /\ h'[r] # h[r])
         => /\ h'[r].attempts = h[r].attempts + 1
            /\ BlockedOnly(h'[r].lastState)
                 => /\ h'[r].closes = h[r].closes + 1
                    /\ ~h'[r].broke
                    /\ \/ /\ h'[r].picks = h[r].picks
                          /\ h'[r].clk = h[r].clk + sleep(h[r].ctx.POLL_INTERVAL_MS)
                       \/ /\ h'[r].picks = h[r].picks + 1 /\ ~h[r].ctx.DRY_RUN
                          /\ h'[r].clk = h[r].clk + 1200 + sleep(h[r].ctx.POLL_INTERVAL_MS)
            /\ h'[r].broke => h'[r].lastState.success
            /\ h'[r].pc = IF h'[r].broke \/ ~LessThan(h'[r].attempts, h'[r].maxAttempts)
                            THEN "final" ELSE "poll"]_vars

\* two iterations saw a blocked page, nothing was clicked, the loop goes on
C20_Witness ==
  \E r \in Requests :
    /\ prog \in {"RA", "RB"} /\ h[r].pc = "poll" /\ ~h[r].ctx.DRY_RUN
    /\ BlockedOnly(h[r].lastState)
    /\ h[r].attempts = 2 /\ h[r].closes = 2 /\ h[r].picks = 0
    /\ h[r].clk = 2 * h[r].ctx.POLL_INTERVAL_MS /\ h[r].clk > 0

C22_LoopWithinPollSeconds ==
  \A r \in Requests :
    (prog \in {"RA", "RB"} /\ h[r].pc \in {"poll", "final"})
      => h[r].clk <= h[r].ctx.POLL_SECONDS * 1000

\* the candidates of the list whose parsed start minute lies in the window
InWindowOf(act) ==
  {i \in 1..Len(act.candidates) :
     /\ act.candidates[i].startMin # Null
     /\ act.candidates[i].startMin[1] >= act.windowStartMin
     /\ act.candidates[i].startMin[1] <= act.windowEndMin}

\* C23: whenever a candidate has a parsed start minute within
\* [windowStartMin, windowEndMin], pickAndClickCalendarRegister clicks one with
\* the smallest such start minute; for the window 18:00-21:00 and start minutes
\* 1170, 1020, 1215 it picks the 1170 one.
C23_PicksEarliestInWindow ==
  [][\A r \in Requests :
       (prog = "Pick" /\ h[r].pc = "evaluate" /\ h'[r].pc = "done" /\ InWindowOf(h[r]) # {})
         => /\ h'[r].lastClick.clicked /\ h'[r].lastClick.reason = "CLICKED_TIME_MATCH"
            /\ h'[r].lastClick.btn # Null
            /\ h'[r].lastClick.btn[1] \in InWindowOf(h[r])
            /\ h'[r].lastClick.pickedStartMin
                 = h[r].candidates[h'[r].lastClick.btn[1]].startMin
            /\ \A i \in InWindowOf(h[r]) :
                 h'[r].lastClick.pickedStartMin[1] <= h[r].candidates[i].startMin[1]
            /\ (/\ h[r].windowStartMin = 1080 /\ h[r].windowEndMin = 1260
                /\ Len(h[r].candidates) = 3
                /\ [i \in 1..3 |-> h[r].candidates[i].startMin] = <<<<1170>>, <<1020>>, <<1215>>>>)
                 => h'[r].lastClick.btn = <<1>>]_vars

\* the window 18:00-21:00 with three candidates of which two lie in it, the
\* earlier one at 1170
C23_Witness ==
  \E r \in Requests :
    /\ prog = "Pick" /\ h[r].pc = "done"
    /\ h[r].lastClick.reason = "CLICKED_TIME_MATCH"
    /\ h[r].lastClick.pickedStartMin = <<1170>>
    /\ h[r].lastClick.candidatesFound = 3 /\ h[r].lastClick.filteredFound = 2

\* the lists with the same candidates in another document order
DocumentOrders(s) ==
  {[i \in 1..Len(s) |-> s[f[i]]] :
     f \in {g \in [1..Len(s) -> 1..Len(s)] : \A i, j \in 1..Len(s) : i # j => g[i] # g[j]}}

\* C24: slot selection does not depend on the order of the candidates: when
\* some candidate lies in the window, every permutation of the list gives the
\* same picked candidate.
C24_PickOrderIndependent ==
  \A r \in Requests :
    (prog = "Pick" /\ h[r].pc = "evaluate" /\ InWindowOf(h[r]) # {})
      => \A p \in DocumentOrders(h[r].candidates) :
           pick(p, h[r].windowStartMin, h[r].windowEndMin)
             = pick(h[r].candidates, h[r].windowStartMin, h[r].windowEndMin)

\* C25: when no candidate has a parseable start time, the first candidate in
\* document order is clicked, with reason CLICKED_FALLBACK; when there is no
\* candidate, nothing is picked and nothing is clicked (clicked = false).
C25_FallbackFirstOrNothing ==
  [][\A r \in Requests :
       (prog = "Pick" /\ h[r].pc = "evaluate" /\ h'[r].pc = "done"
          /\ \A i \in 1..Len(h[r].candidates) : h[r].candidates[i].startMin = Null)
         => IF h[r].candidates = <<>>
              THEN /\ ~h'[r].lastClick.clicked /\ h'[r].lastClick.btn = Null
                   /\ h'[r].lastClick.reason = "NO_REGISTER_FOUND"
              ELSE /\ h'[r].lastClick.clicked /\ h'[r].lastClick.btn = <<1>>
                   /\ h'[r].lastClick.reason = "CLICKED_FALLBACK"]_vars

\* two candidates without a time in the window: the first one was clicked
C25_Witness ==
  \E r \in Requests :
    /\ prog = "Pick" /\ h[r].pc = "done"
    /\ h[r].lastClick.reason = "CLICKED_FALLBACK" /\ h[r].lastClick.btn = <<1>>
    /\ h[r].lastClick.pickedStartMin = Null
    /\ h[r].lastClick.candidatesFound = 2 /\ h[r].lastClick.filteredFound = 0

\* C26: the script of version A reports status BOOKING_CONFIRMED only if the
\* URL of the page at the observation it reports (the first check or the last
\* getState) matches quickRegisterId=<digits>, /cart or /checkout: page text, a
\* click or the end of the loop never give BOOKING_CONFIRMED.
C26_ConfirmedOnlyByUrl ==
  \A r \in Requests :
    (prog = "RA" /\ h[r].pc = "done")
      => (h[r].status = "BOOKING_CONFIRMED" <=> h[r].finalState.urlCue)

\* three iterations with a click, a cart summary in the text of the last page
\* but no success URL: the run reports POLLING_DONE
C26_Witness ==
  \E r \in Requests :
    /\ prog = "RA" /\ h[r].pc = "done" /\ h[r].status = "POLLING_DONE"
    /\ h[r].finalState.textCue /\ ~h[r].finalState.urlCue
    /\ h[r].outcome = "NO_SUCCESS" /\ h[r].attempts = 3

\* C27: in version B, an observation with blocked or not-open-yet evidence
\* together with a success cue is not taken as success by the poll loop and
\* does not end it.
C27_AmbiguousNotSuccess ==
  [][\A r \in Requests :
       (prog = "RB" /\ h[r].pc = "poll" /\ h'[r] # h[r]
          /\ h'[r].lastState.blocked /\ h'[r].lastState.success)
         => ~h'[r].broke]_vars

\* C28: every rule that passes validation in src/index.js and is sent to
\* Browserless has eveningStart <= eveningEnd as minutes of the day.
C28_WindowStartBeforeEnd ==
  \A r \in Requests :
    (prog \in {"A", "B"} /\ h[r].pc = "fetch")
      => hhmmToMinutes(h[r].rule.eveningStart) <= hhmmToMinutes(h[r].rule.eveningEnd)

\* C29: every rule that is sent to Browserless has pollIntervalMs > 0 and
\* pollIntervalMs <= pollSeconds * 1000, in src/index.js and in the first
\* program of part_004.
C29_IntervalWithinPollSeconds ==
  \A r \in Requests :
    (prog \in {"A", "B", "P4"} /\ h[r].pc = "fetch")
      => /\ h[r].rule.pollIntervalMs > 0
         /\ h[r].rule.pollIntervalMs <= h[r].rule.pollSeconds * 1000

\* C30: in version A the wait before attempt i+1 is jitter(d) with
\* d = min(maxDelayMs, baseDelayMs * 2^(i-1)); d is nondecreasing in i and never
\* above maxDelayMs, and jitter(d) lies within [d - floor(0.2*d), d + floor(0.2*d)].
C30_BackoffWithinJitterBand ==
  /\ \A i \in 1..(maxAttemptsA + 2) :
       /\ delayA(i) <= delayA(i + 1)
       /\ delayA(i) <= maxDelayMsA
       /\ \A rnd \in RandomValues :
            /\ jitter(delayA(i), rnd) >= delayA(i) - delayA(i) \div 5
            /\ jitter(delayA(i), rnd) <= delayA(i) + delayA(i) \div 5
  /\ \A r \in Requests :
       (prog = "A" /\ h[r].pc = "sleep")
         => LET i == h[r].attempt
                d == IF baseDelayMsA * Pow2(i - 1) < maxDelayMsA
                       THEN baseDelayMsA * Pow2(i - 1) ELSE maxDelayMsA
            IN  /\ h[r].waitMs >= d - d \div 5
                /\ h[r].waitMs <= d + d \div 5

\* the third attempt failed and the longest wait of its band was drawn
C30_Witness ==
  \E r \in Requests :
    /\ prog = "A" /\ h[r].pc = "sleep" /\ h[r].attempt = 3
    /\ h[r].waitMs = delayA(3) + delayA(3) \div 5
    /\ delayA(3) > delayA(2)

\* C31: fetchWithRetry sleeps a backoff only when another attempt follows: when
\* it returns after k attempts it has slept at most k - 1 times, and it never
\* sleeps after the last permitted attempt.
C31_SleepOnlyBeforeNextAttempt ==
  \A r \in Requests :
    prog = "P4" =>
      /\ (h[r].pc = "sleep" => h[r].attempt < retryOptsP4.maxAttempts)
      /\ (h[r].pc = "returned" /\ h[r].attempt >= 1 => h[r].sleeps <= h[r].attempt - 1)

\* C32: in part_000 the cookie cache is written only by a /warmup run that
\* succeeded, which stores the cookies with the time of the write; and /book
\* passes the cached cookies to Browserless only if they were stored less than
\* two hours earlier, otherwise null.
C32_CacheWrittenOnSuccessAndExpires ==
  [][prog = "P0" =>
       /\ (cachedCookies' # cachedCookies \/ cachedCookiesAt' # cachedCookiesAt)
            => /\ \E r \in Requests :
                    /\ h[r].pc = "warmup" /\ h'[r].pc = "done"
                    /\ h'[r].payload.status = "WARMUP_OK"
               /\ cachedCookies' # Null /\ cachedCookiesAt' = now
       /\ \A r \in Requests :
            (h[r].pc = "idle" /\ h'[r].pc = "book")
              => h'[r].cookies =
                   (IF cachedCookies # Null /\ now - cachedCookiesAt < 7200000
                      THEN cachedCookies ELSE Null)]_vars

\* a /book call made exactly two hours after the cookies were stored passes null
C32_Witness ==
  \E r \in Requests :
    /\ prog = "P0" /\ h[r].pc = "book" /\ h[r].cookies = Null
    /\ cachedCookies # Null /\ now - cachedCookiesAt = 7200000

\* C33: when DRY_RUN is true the poll loop never calls
\* pickAndClickCalendarRegister: no Register button is clicked in any iteration
\* and the data returned carries no lastClick.
C33_DryRunNeverClicks ==
  [][\A r \in Requests :
       (prog \in {"RA", "RB"} /\ h[r].pc \in {"poll", "final"} /\ h[r].ctx.DRY_RUN)
         => /\ h[r].picks = 0
            /\ h'[r].pc \in {"poll", "final"} => h'[r].picks = 0
            /\ h'[r].pc = "done" => ~h'[r].lastClick]_vars

\* a dry run polled an open page through its whole budget and returned
C33_Witness ==
  \E r \in Requests :
    /\ prog \in {"RA", "RB"} /\ h[r].pc = "final" /\ h[r].ctx.DRY_RUN
    /\ h[r].attempts = 3 /\ ~h[r].broke
    /\ ~h[r].lastState.blocked /\ ~h[r].lastState.success

\* C34: pickAndClickCalendarRegister never clicks a candidate whose parsed start
\* time lies outside [windowStartMin, windowEndMin].
C34_NoClickOutsideWindow ==
  [][\A r \in Requests :
       (prog = "Pick" /\ h[r].pc = "evaluate" /\ h'[r].pc = "done"
          /\ h'[r].lastClick.clicked)
         => LET c == h[r].candidates[h'[r].lastClick.btn[1]]
            IN  c.startMin # Null
                  => /\ c.startMin[1] >= h[r].windowStartMin
                     /\ c.startMin[1] <= h[r].windowEndMin]_vars

\* C35: every backoff sleep of version B fetchWithRetry lasts at most
\* maxBackoffMs + 499 ms, also when the wait comes from a Retry-After header.
C35_SleepAtMostMaxBackoff ==
  \A r \in Requests :
    (prog = "B" /\ h[r].pc = "sleep")
      => sleep(h[r].waitMs) <= env.cfg.maxBackoffMs + 499

\* C36: fetchWithRetry of part_002 returns or throws within maxTotalMs of its
\* start: no attempt's timeout ends after the total budget and no backoff sleep
\* ends after it.
C36_WithinTotalBudget ==
  \A r \in Requests :
    prog = "P2" =>
      /\ (h[r].pc = "fetch"
            => h[r].clk + Min(60000, Max(15000, h[r].maxTotalMs - h[r].clk))
                 <= h[r].maxTotalMs)
      /\ (h[r].pc = "sleep" => h[r].clk + h[r].waitMs <= h[r].maxTotalMs)
      /\ (h[r].pc = "returned" => h[r].clk <= h[r].maxTotalMs)

\* C37: with the default settings of version B a Browserless run that polls
\* through its whole iteration budget has ended before the per-attempt timeout
\* of 120000 ms.
C37_DefaultRunWithinAttemptTimeout ==
  \A r \in Requests :
    (prog = "RD" /\ h[r].pc = "final" /\ h[r].ctx = DefaultContext
       /\ ~h[r].broke /\ AtLeast(h[r].attempts, h[r].maxAttempts))
      => h[r].clk < DefaultCfg.perAttemptTimeoutMs

\* C38: in version A a POST /book rejected with 401 or 409 leaves RUNNING and
\* RUNNING_SINCE unchanged; it does not release the lock of the run in progress.
C38_RejectedKeepsLock ==
  [][\A r \in Requests :
       (prog = "A" /\ h[r].pc = "idle" /\ h'[r].pc = "done"
          /\ sent'[r] \in {<<401>>, <<409>>})
         => RUNNING' = RUNNING /\ RUNNING_SINCE' = RUNNING_SINCE]_vars

\* a request was answered 409 while the run of another request holds the lock
C38_Witness ==
  \E r, q \in Requests :
    /\ prog = "A" /\ sent[r] = <<409>> /\ h[r].pc = "done"
    /\ h[q].pc \in {"fetch", "sleep"} /\ RUNNING /\ RUNNING_SINCE = <<q>>

\* C39: the remote script of part_001 returns REGISTER_NOT_OPEN_IN_TIME only
\* when no Register button was clicked during the run.
C39_NotOpenInTimeMeansNoClick ==
  \A r \in Requests :
    (prog = "R1" /\ h[r].pc = "done" /\ h[r].status = "REGISTER_NOT_OPEN_IN_TIME")
      => ~h[r].clicked

\* C40: parseStartMinutes returns either null or an integer minute of the day
\* in 0..1439 for every candidate text, in its 12-hour and its 24-hour branch.
C40_StartMinuteOfDay ==
  \A r \in Requests :
    (prog = "Parse" /\ h[r].pc = "done" /\ h[r].startMin # Null)
      => h[r].startMin[1] \in 0..1439

=============================================================================
